---- MODULE Spec2Model ----
(***************************************************************************)
(* A model of the decision maker of aea/decision_maker/base.py:            *)
(* GoalPursuitReadiness, OwnershipState, Preferences and DecisionMaker.    *)
(*                                                                         *)
(* Python objects live in a heap of cells (heap), so that copy.copy, the   *)
(* in-place mutation of a dictionary and the aliasing of a caller's        *)
(* dictionary are what the code makes them.  A reference is a location     *)
(* 1..NLoc, None is 0.  A dictionary is a function from its keys (strings) *)
(* to integers.  The float parameters of Preferences are taken from the    *)
(* integers, and scores are computed in millionths (see Ln).               *)
(*                                                                         *)
(* The second part models the queries of aea/helpers/search/models.py:     *)
(* ConstraintType, Constraint, And, Or, Not, Query and DataModel.  A value *)
(* of an attribute carries its Python type; a str is given by its rank in  *)
(* the lexicographic order, a bool by 0 or 1.                              *)
(***************************************************************************)
EXTENDS Integers, Sequences, FiniteSets, TLC

\* ------------------------------------------------------------------ bounds
MaxQueue == 2      \* longest inbound queue the producers build
MaxMsgs == 3       \* messages enqueued in one run
MaxAmount == 2     \* largest amount of a transaction
MaxFee == 1        \* largest sender / counterparty fee of a transaction
MaxBalance == 3    \* largest balance the ledger reports
MaxTxFee == 3      \* largest total fee of an INITIALIZE message
NLoc == 20         \* cells of the heap
MutatedValue == 7  \* the value a caller writes into a dict it kept
MaxInt == 2               \* the int values of an attribute are 0..MaxInt
MaxStr == 2               \* the str values are the first MaxStr of an alphabet
MaxAttrs == 3             \* a data model is built from at most MaxAttrs attributes
MaxTerms == 3             \* the terms and the ledger api dialogues given to a setter
MaxDialogues == 2         \* the contract_api dialogues kept at once
MaxMessages == 4          \* a dialogue is followed up to MaxMessages messages
NThreads == 2      \* threads that call execute at once
MaxHold == 2       \* largest holding, of either sign, operations made directly leave

\* --------------------------------------------------------------- constants
QUANTITY_SHIFT == 100
INTERNAL_PROTOCOL_ID == "internal"
OFF_CHAIN == "off_chain"
READY == "ready"
NOT_READY == "not_ready"
None == 0
NoneStr == "<None>"          \* None where the code has an Optional[str]
NoExc == ""                  \* no exception was raised

Currencies == {"FET"}
Goods == {"g1", "g2"}
\* the ledgers the wallet holds a crypto object for
WalletLedgers == {"fetchai"}

\* v named x in F: LET x == v IN F, with v evaluated once
Bind(v, F(_)) == F(v)

\* -------------------------------------------------------------------- heap
Loc == 1..NLoc
Free == [type |-> "free"]
Dict(f) == [type |-> "dict", d |-> f]
OsObj(c, g) == [type |-> "OwnershipState", _amount_by_currency |-> c,
                _quantities_by_good_id |-> g]

\* the first cell that is free
Alloc(h) ==
  CHOOSE l \in Loc : h[l].type = "free" /\ \A k \in 1..(l - 1) : h[k].type # "free"
NewDict(h, f) ==
  Bind(Alloc(h), LAMBDA l : [h |-> [h EXCEPT ![l] = Dict(f)], loc |-> l])
\* copy.copy of a dictionary: a new cell with the same items
CopyDict(h, l) == NewDict(h, h[l].d)

\* ------------------------------------------------------- sums over a dict
RECURSIVE SumOver(_, _, _)
\* the sum of p[k] * q[k] for k in ks
SumOver(ks, p, q) ==
  IF ks = {} THEN 0
  ELSE LET k == CHOOSE x \in ks : TRUE
       IN p[k] * q[k] + SumOver(ks \ {k}, p, q)

\* ---------------------------------------------------------- OwnershipState
\* OwnershipState(): a new object with both holdings None
OsNew(h) ==
  Bind(Alloc(h), LAMBDA l : [h |-> [h EXCEPT ![l] = OsObj(None, None)], loc |-> l])

\* OwnershipState.init keeping the caller's dicts themselves
OsInit_NoCopy(h, self, cur, good) ==
  [h EXCEPT ![self] = OsObj(cur, good)]

\* OwnershipState.init: both holdings become copies of the caller's dicts
OsInit(h, self, cur, good) ==
  Bind(CopyDict(h, cur), LAMBDA a :
  Bind(CopyDict(a.h, good), LAMBDA b :
    [b.h EXCEPT ![self] = OsObj(a.loc, b.loc)]))

OsIsInitialized(h, self) ==
  h[self]._amount_by_currency # None /\ h[self]._quantities_by_good_id # None

\* the property amount_by_currency without its assertion
OsAmountByCurrency_NoAssert(h, self) ==
  IF h[self]._amount_by_currency = None
  THEN [exc |-> NoExc, val |-> <<>>]
  ELSE [exc |-> NoExc, val |-> h[h[self]._amount_by_currency].d]

\* the properties amount_by_currency and quantities_by_good_id: an assertion,
\* then a copy of the dict; the copy is read as a value where it is dropped
OsAmountByCurrency(h, self) ==
  IF h[self]._amount_by_currency = None
  THEN [exc |-> "AssertionError", val |-> <<>>]
  ELSE [exc |-> NoExc, val |-> h[h[self]._amount_by_currency].d]

OsQuantitiesByGoodId(h, self) ==
  IF h[self]._quantities_by_good_id = None
  THEN [exc |-> "AssertionError", val |-> <<>>]
  ELSE [exc |-> NoExc, val |-> h[h[self]._quantities_by_good_id].d]

\* check_transaction_is_consistent leaving the sender's fee out for a buyer,
\* and for a seller as the code has it
CheckTransactionIsConsistent_IgnoresFee(h, self, tx) ==
  LET cur == OsAmountByCurrency(h, self)
      good == OsQuantitiesByGoodId(h, self)
      txg == tx.quantities_by_good_id
  IN IF tx.is_sender_buyer
     THEN IF cur.exc # NoExc THEN [exc |-> cur.exc, val |-> FALSE]
          ELSE IF tx.currency_id \notin DOMAIN cur.val
          THEN [exc |-> "KeyError", val |-> FALSE]
          ELSE [exc |-> NoExc, val |-> cur.val[tx.currency_id] >= tx.amount]
     ELSE IF DOMAIN txg # {} /\ good.exc # NoExc
          THEN [exc |-> good.exc, val |-> FALSE]
          ELSE IF DOMAIN txg # {} /\ ~(DOMAIN txg \subseteq DOMAIN good.val)
          THEN [exc |-> "KeyError", val |-> FALSE]
          ELSE IF cur.exc # NoExc THEN [exc |-> cur.exc, val |-> FALSE]
          ELSE IF tx.currency_id \notin DOMAIN cur.val
          THEN [exc |-> "KeyError", val |-> FALSE]
          ELSE [exc |-> NoExc,
                val |-> cur.val[tx.currency_id] + tx.amount >= tx.sender_tx_fee]

\* OwnershipState.check_transaction_is_consistent.  For a seller the loop over
\* the goods computes a result that the assignment after it replaces; the loop
\* still reads the goods held, and fails on a good that is not held (a bundle
\* holds at most one good, so the loop reaches it)
CheckTransactionIsConsistent(h, self, tx) ==
  LET cur == OsAmountByCurrency(h, self)
      good == OsQuantitiesByGoodId(h, self)
      txg == tx.quantities_by_good_id
  IN IF tx.is_sender_buyer
     THEN IF cur.exc # NoExc THEN [exc |-> cur.exc, val |-> FALSE]
          ELSE IF tx.currency_id \notin DOMAIN cur.val
          THEN [exc |-> "KeyError", val |-> FALSE]
          ELSE [exc |-> NoExc,
                val |-> cur.val[tx.currency_id] >= tx.amount + tx.sender_tx_fee]
     ELSE IF DOMAIN txg # {} /\ good.exc # NoExc
          THEN [exc |-> good.exc, val |-> FALSE]
          ELSE IF DOMAIN txg # {} /\ ~(DOMAIN txg \subseteq DOMAIN good.val)
          THEN [exc |-> "KeyError", val |-> FALSE]
          ELSE IF cur.exc # NoExc THEN [exc |-> cur.exc, val |-> FALSE]
          ELSE IF tx.currency_id \notin DOMAIN cur.val
          THEN [exc |-> "KeyError", val |-> FALSE]
          ELSE [exc |-> NoExc,
                val |-> cur.val[tx.currency_id] + tx.amount >= tx.sender_tx_fee]

\* OwnershipState.__copy__ handing the dicts of self to the new object
OsCopy_SharesDicts(h, self) ==
  Bind(OsNew(h), LAMBDA n :
    IF ~OsIsInitialized(h, self)
    THEN [h |-> n.h, loc |-> n.loc, exc |-> "AssertionError"]
    ELSE [h |-> [n.h EXCEPT ![n.loc] = OsObj(h[self]._amount_by_currency,
                                            h[self]._quantities_by_good_id)],
          loc |-> n.loc, exc |-> NoExc])

\* OwnershipState.__copy__: a new object holding copies of both dicts
OsCopy(h, self) ==
  Bind(OsNew(h), LAMBDA n :
    IF ~OsIsInitialized(h, self)
    THEN [h |-> n.h, loc |-> n.loc, exc |-> "AssertionError"]
    ELSE Bind(CopyDict(n.h, h[self]._amount_by_currency), LAMBDA a :
         Bind(CopyDict(a.h, h[self]._quantities_by_good_id), LAMBDA b :
           [h |-> [b.h EXCEPT ![n.loc] = OsObj(a.loc, b.loc)],
            loc |-> n.loc, exc |-> NoExc])))

\* OwnershipState.update refusing a transaction that is not consistent
OsUpdate_Checked(h, self, tx) ==
  LET cl == h[self]._amount_by_currency
      gl == h[self]._quantities_by_good_id
      cur == h[cl].d
      good == h[gl].d
      diff == IF tx.is_sender_buyer THEN tx.amount + tx.sender_tx_fee
              ELSE tx.amount - tx.sender_tx_fee
      cur2 == IF tx.is_sender_buyer
              THEN [cur EXCEPT ![tx.currency_id] = @ - diff]
              ELSE [cur EXCEPT ![tx.currency_id] = @ + diff]
      txg == tx.quantities_by_good_id
      good2 == [g \in DOMAIN good |->
                 IF g \in DOMAIN txg
                 THEN (IF tx.is_sender_buyer THEN good[g] + txg[g] ELSE good[g] - txg[g])
                 ELSE good[g]]
  IN IF cl = None
     THEN [h |-> h, exc |-> "TypeError"]
     ELSE IF ~CheckTransactionIsConsistent(h, self, tx).val
     THEN [h |-> h, exc |-> "AssertionError"]
     ELSE [h |-> [h EXCEPT ![cl] = Dict(cur2), ![gl] = Dict(good2)], exc |-> NoExc]

\* OwnershipState.update: the dicts of self are changed in place
OsUpdate(h, self, tx) ==
  LET cl == h[self]._amount_by_currency
      gl == h[self]._quantities_by_good_id
      cur == h[cl].d
      good == h[gl].d
      diff == IF tx.is_sender_buyer THEN tx.amount + tx.sender_tx_fee
              ELSE tx.amount - tx.sender_tx_fee
      cur2 == IF tx.is_sender_buyer
              THEN [cur EXCEPT ![tx.currency_id] = @ - diff]
              ELSE [cur EXCEPT ![tx.currency_id] = @ + diff]
      txg == tx.quantities_by_good_id
      good2 == [g \in DOMAIN good |->
                 IF g \in DOMAIN txg
                 THEN (IF tx.is_sender_buyer THEN good[g] + txg[g] ELSE good[g] - txg[g])
                 ELSE good[g]]
  IN IF cl = None
     THEN [h |-> h, exc |-> "TypeError"]
     ELSE IF tx.currency_id \notin DOMAIN cur
     THEN [h |-> h, exc |-> "KeyError"]
     ELSE IF ~(DOMAIN txg \subseteq DOMAIN good)
     THEN [h |-> [h EXCEPT ![cl] = Dict(cur2)], exc |-> "KeyError"]
     ELSE [h |-> [h EXCEPT ![cl] = Dict(cur2), ![gl] = Dict(good2)], exc |-> NoExc]

RECURSIVE OsUpdateAll(_, _, _)
OsUpdateAll(h, self, txs) ==
  IF txs = <<>> THEN [h |-> h, exc |-> NoExc]
  ELSE Bind(OsUpdate(h, self, Head(txs)), LAMBDA r :
         IF r.exc # NoExc THEN r ELSE OsUpdateAll(r.h, self, Tail(txs)))

\* OwnershipState.apply: update a copy with each transaction in turn
OsApply(h, self, txs) ==
  Bind(OsCopy(h, self), LAMBDA c :
    IF c.exc # NoExc THEN c
    ELSE Bind(OsUpdateAll(c.h, c.loc, txs), LAMBDA r :
           [h |-> r.h, loc |-> c.loc, exc |-> r.exc]))

\* OwnershipState.apply_state_update adding the deltas to self, without a copy
OsApplyStateUpdate_InPlace(h, self, dcur, dgood) ==
  IF ~OsIsInitialized(h, self) THEN [h |-> h, loc |-> self, exc |-> "AssertionError"]
  ELSE LET cl == h[self]._amount_by_currency
           gl == h[self]._quantities_by_good_id
           cur == h[cl].d
           good == h[gl].d
           cur2 == [k \in DOMAIN cur |->
                     IF k \in DOMAIN dcur THEN cur[k] + dcur[k] ELSE cur[k]]
           good2 == [k \in DOMAIN good |->
                      IF k \in DOMAIN dgood THEN good[k] + dgood[k] ELSE good[k]]
       IN IF ~(DOMAIN dcur \subseteq DOMAIN cur) \/ ~(DOMAIN dgood \subseteq DOMAIN good)
          THEN [h |-> h, loc |-> self, exc |-> "KeyError"]
          ELSE [h |-> [h EXCEPT ![cl] = Dict(cur2), ![gl] = Dict(good2)],
                loc |-> self, exc |-> NoExc]

\* OwnershipState.apply_state_update adding the deltas to self until a key is
\* found missing
OsApplyStateUpdate_Partial(h, self, dcur, dgood) ==
  IF ~OsIsInitialized(h, self) THEN [h |-> h, loc |-> self, exc |-> "AssertionError"]
  ELSE LET cl == h[self]._amount_by_currency
           gl == h[self]._quantities_by_good_id
           cur == h[cl].d
           good == h[gl].d
           cur2 == [k \in DOMAIN cur |->
                     IF k \in DOMAIN dcur THEN cur[k] + dcur[k] ELSE cur[k]]
           good2 == [k \in DOMAIN good |->
                      IF k \in DOMAIN dgood THEN good[k] + dgood[k] ELSE good[k]]
       IN IF ~(DOMAIN dcur \subseteq DOMAIN cur)
          THEN [h |-> [h EXCEPT ![cl] = Dict(cur2)], loc |-> self, exc |-> "KeyError"]
          ELSE IF ~(DOMAIN dgood \subseteq DOMAIN good)
          THEN [h |-> [h EXCEPT ![cl] = Dict(cur2), ![gl] = Dict(good2)],
                loc |-> self, exc |-> "KeyError"]
          ELSE OsApplyStateUpdate_InPlace(h, self, dcur, dgood)

\* OwnershipState.apply_state_update: add the deltas to a copy
OsApplyStateUpdate(h, self, dcur, dgood) ==
  Bind(OsCopy(h, self), LAMBDA c :
    IF c.exc # NoExc THEN c
    ELSE LET cl == c.h[c.loc]._amount_by_currency
             gl == c.h[c.loc]._quantities_by_good_id
             cur == c.h[cl].d
             good == c.h[gl].d
             cur2 == [k \in DOMAIN cur |->
                       IF k \in DOMAIN dcur THEN cur[k] + dcur[k] ELSE cur[k]]
             good2 == [k \in DOMAIN good |->
                        IF k \in DOMAIN dgood THEN good[k] + dgood[k] ELSE good[k]]
         IN IF ~(DOMAIN dcur \subseteq DOMAIN cur) \/ ~(DOMAIN dgood \subseteq DOMAIN good)
            THEN [h |-> c.h, loc |-> c.loc, exc |-> "KeyError"]
            ELSE [h |-> [c.h EXCEPT ![cl] = Dict(cur2), ![gl] = Dict(good2)],
                  loc |-> c.loc, exc |-> NoExc])

\* ------------------------------------------------------------- Preferences
\* math.log in millionths, rounded down, for the arguments 85..115
Ln(x) ==
  <<4442651, 4454347, 4465908, 4477336, 4488636, 4499809, 4510859, 4521788,
    4532599, 4543294, 4553876, 4564348, 4574710, 4584967, 4595119, 4605170,
    4615120, 4624972, 4634728, 4644390, 4653960, 4663439, 4672828, 4682131,
    4691347, 4700480, 4709530, 4718498, 4727387, 4736198, 4744932>>[x - 84]
Million == 1000 * 1000

\* Preferences(): nothing is set
PrefNew == [_exchange_params_by_currency |-> None,
            _utility_params_by_good_id |-> None,
            _transaction_fees |-> <<>>]

\* Preferences._split_tx_fees for a fee below 2^53, where the float product
\* tx_fee * 0.5 is exact: math.ceil(tx_fee * 0.5) twice, then the correction
SplitTxFees(tx_fee) ==
  LET buyer_part == (tx_fee + 1) \div 2
      seller_part == (tx_fee + 1) \div 2
  IN [seller_tx_fee |-> IF buyer_part + seller_part > tx_fee
                        THEN seller_part - 1 ELSE seller_part,
      buyer_tx_fee |-> buyer_part]

\* Preferences._split_tx_fees for any fee.  The int a * 2^52 + b, with b far
\* below 2^52, is <<a, b>>; a is 0, 2 or 4.  tx_fee * 0.5 converts the int to
\* the nearest float, ties to the even one: floats are 1 apart below 2^53,
\* 2 apart from 2^53 and 4 apart from 2^54.  The halving and math.ceil are
\* exact then, but below 2^53, where math.ceil rounds a half up.
SplitTxFeesFloat(tx_fee) ==
  LET ulp == IF tx_fee[1] = 0 THEN 1 ELSE tx_fee[1]
      q == tx_fee[2] \div ulp
      r == tx_fee[2] % ulp
      float == ulp * (IF 2 * r > ulp \/ (2 * r = ulp /\ q % 2 = 1) THEN q + 1 ELSE q)
      part == (float + 1) \div 2
      exceeds == part + part > tx_fee[2]
  IN [seller_tx_fee |-> <<tx_fee[1] \div 2, IF exceeds THEN part - 1 ELSE part>>,
      buyer_tx_fee |-> <<tx_fee[1] \div 2, part>>]

\* Preferences.init: the caller's two dicts are kept, not copied
PrefInit(exch, util, tx_fee) ==
  [_exchange_params_by_currency |-> exch,
   _utility_params_by_good_id |-> util,
   _transaction_fees |-> <<SplitTxFees(tx_fee)>>]

PrefIsInitialized(p) ==
  /\ p._exchange_params_by_currency # None
  /\ p._utility_params_by_good_id # None
  /\ p._transaction_fees # <<>>

\* helpers.preference_representations: sum of param * ln(quantity + shift)
LogarithmicUtility(params, quantities, shift) ==
  SumOver(DOMAIN quantities, params, [g \in DOMAIN quantities |-> Ln(quantities[g] + shift)])

\* helpers.preference_representations: sum of param * amount
LinearUtility(params, amounts) ==
  SumOver(DOMAIN amounts, params, [c \in DOMAIN amounts |-> amounts[c] * Million])

\* Preferences.get_score, in millionths
GetScore(h, p, quantities, amounts) ==
  LogarithmicUtility(h[p._utility_params_by_good_id].d, quantities, QUANTITY_SHIFT)
    + LinearUtility(h[p._exchange_params_by_currency].d, amounts)

\* Preferences.get_score_diff_from_transaction
GetScoreDiffFromTransaction(h, p, os, tx) ==
  LET current_score == GetScore(h, p, OsQuantitiesByGoodId(h, os).val,
                                OsAmountByCurrency(h, os).val)
  IN Bind(OsApply(h, os, <<tx>>), LAMBDA n :
       IF n.exc # NoExc THEN [h |-> n.h, exc |-> n.exc, val |-> 0]
       ELSE [h |-> n.h, exc |-> NoExc,
             val |-> GetScore(n.h, p, OsQuantitiesByGoodId(n.h, n.loc).val,
                              OsAmountByCurrency(n.h, n.loc).val)
                     - current_score])

\* ---------------------------------------------------------------- messages
\* a dict with the same value under every key of ks
Const(ks, v) == [k \in ks |-> v]

\* TransactionMessage, as the decision maker reads it
Tx(id, buyer, amount, sfee, cfee, goods, ledger) ==
  [kind |-> "TransactionMessage", protocol_id |-> INTERNAL_PROTOCOL_ID,
   transaction_id |-> id, is_sender_buyer |-> buyer, currency_id |-> "FET",
   amount |-> amount, sender_tx_fee |-> sfee, counterparty_tx_fee |-> cfee,
   quantities_by_good_id |-> goods, ledger_id |-> ledger, counterparty |-> "pk2"]

\* StateUpdateMessage
StateUpdate(perf, cur, goods, exch, util, fee) ==
  [kind |-> "StateUpdateMessage", protocol_id |-> INTERNAL_PROTOCOL_ID,
   performative |-> perf, amount_by_currency |-> cur, quantities_by_good_id |-> goods,
   exchange_params_by_currency |-> exch, utility_params_by_good_id |-> util,
   tx_fee |-> fee]

\* every transaction within the bounds
TxMessages ==
  {Tx(id, b, a, sf, cf, g, l) :
     id \in {"t1"}, b \in BOOLEAN, a \in 1..MaxAmount, sf \in 0..MaxFee,
     cf \in 0..MaxFee, g \in {<<>>, [good \in {"g1"} |-> 1]},
     l \in {OFF_CHAIN, "fetchai", "ethereum"}}

\* the INITIALIZE messages: holdings, parameters and a total fee
InitMessages ==
  {StateUpdate("initialize", Const(Currencies, a), Const(Goods, q),
               Const(Currencies, 1), Const(Goods, u), f) :
     a \in {1, MaxAmount + 1}, q \in {1}, u \in {0, 200}, f \in {MaxTxFee}}

\* the messages the producers put on the inbound queue
QueueMessages ==
  {Tx("t1", TRUE, 1, 0, 0, <<>>, OFF_CHAIN),
   Tx("t2", FALSE, 1, 1, 0, <<>>, "fetchai"),
   Tx("t3", TRUE, 1, 0, 1, <<>>, "ethereum"),
   StateUpdate("initialize", Const(Currencies, 2), Const(Goods, 1),
               Const(Currencies, 1), Const(Goods, 200), 1),
   StateUpdate("initialize", Const(Currencies, 0), Const(Goods, 0),
               Const(Currencies, 1), Const(Goods, 0), 2),
   StateUpdate("apply", Const(Currencies, 1), [g \in {"g1"} |-> 1], <<>>, <<>>, 0),
   StateUpdate("apply", Const({"FET", "XXX"}, 1), <<>>, <<>>, <<>>, 0),
   [kind |-> "TransactionMessage", protocol_id |-> "fipa", transaction_id |-> "t4"],
   [kind |-> "Message", protocol_id |-> INTERNAL_PROTOCOL_ID],
   [kind |-> "None"]}

\* Wallet.crypto_objects.get(ledger_id), for a ledger the wallet holds
CryptoObject(ledger_id) == [identifier |-> ledger_id, address |-> "address"]

\* TransactionMessage.respond_with
RespondWith(tx, performative, digest) ==
  [performative |-> performative, transaction_id |-> tx.transaction_id,
   transaction_digest |-> digest]

\* ----------------------------------------------------------- DecisionMaker
\* the max_reactions the decision maker is constructed with
max_reactions == 1

\* IsUtilityEnhancing with the default turned round: without the state the
\* transaction is taken not to improve utility
IsUtilityEnhancing_Pessimistic(h, p, os, tx) ==
  IF PrefIsInitialized(p) /\ OsIsInitialized(h, os)
  THEN Bind(GetScoreDiffFromTransaction(h, p, os, tx), LAMBDA d :
         [h |-> d.h, exc |-> d.exc, val |-> d.val >= 0])
  ELSE [h |-> h, exc |-> NoExc, val |-> FALSE]

\* DecisionMaker._is_utility_enhancing
IsUtilityEnhancing(h, p, os, tx) ==
  IF PrefIsInitialized(p) /\ OsIsInitialized(h, os)
  THEN Bind(GetScoreDiffFromTransaction(h, p, os, tx), LAMBDA d :
         [h |-> d.h, exc |-> d.exc, val |-> d.val >= 0])
  ELSE [h |-> h, exc |-> NoExc, val |-> TRUE]

\* IsAffordable with the comparison strict
IsAffordable_Strict(tx, bal) ==
  IF tx.ledger_id = OFF_CHAIN
  THEN [exc |-> NoExc, val |-> TRUE, calls |-> <<>>]
  ELSE LET payable == (tx.amount - tx.counterparty_tx_fee)
                      + (tx.sender_tx_fee + tx.counterparty_tx_fee)
           call == [op |-> "token_balance", identifier |-> tx.ledger_id,
                    address |-> "address", ret |-> bal]
       IN IF tx.ledger_id \notin WalletLedgers
          THEN [exc |-> "AttributeError", val |-> FALSE, calls |-> <<>>]
          ELSE IF bal = <<>>
          THEN [exc |-> "TypeError", val |-> FALSE, calls |-> <<call>>]
          ELSE [exc |-> NoExc, val |-> payable < bal[1], calls |-> <<call>>]

\* DecisionMaker._is_affordable; bal is what token_balance answers if called
IsAffordable(tx, bal) ==
  IF tx.ledger_id = OFF_CHAIN
  THEN [exc |-> NoExc, val |-> TRUE, calls |-> <<>>]
  ELSE LET transfer_amount == tx.amount - tx.counterparty_tx_fee
           max_tx_fee == tx.sender_tx_fee + tx.counterparty_tx_fee
           payable == transfer_amount + max_tx_fee
           crypto_object == CryptoObject(tx.ledger_id)
           call == [op |-> "token_balance", identifier |-> crypto_object.identifier,
                    address |-> crypto_object.address, ret |-> bal]
       IN IF tx.ledger_id \notin WalletLedgers
          THEN [exc |-> "AttributeError", val |-> FALSE, calls |-> <<>>]
          ELSE IF bal = <<>>
          THEN [exc |-> "TypeError", val |-> FALSE, calls |-> <<call>>]
          ELSE [exc |-> NoExc, val |-> payable <= bal[1], calls |-> <<call>>]

\* IsAcceptableTx with the utility check made and then left out of the answer
IsAcceptableTx_AffordableOnly(h, p, os, tx, bal) ==
  Bind(IsUtilityEnhancing(h, p, os, tx), LAMBDA u :
  Bind(IsAffordable(tx, bal), LAMBDA a :
     IF u.exc # NoExc
     THEN [h |-> u.h, exc |-> u.exc, val |-> FALSE, util |-> FALSE, afford |-> FALSE,
           stage |-> "utility", calls |-> <<>>]
     ELSE IF a.exc # NoExc
     THEN [h |-> u.h, exc |-> a.exc, val |-> FALSE, util |-> u.val, afford |-> FALSE,
           stage |-> "affordable", calls |-> a.calls]
     ELSE [h |-> u.h, exc |-> NoExc, val |-> a.val, util |-> u.val,
           afford |-> a.val, stage |-> "acceptable", calls |-> a.calls]))

\* DecisionMaker._is_acceptable_tx: both checks are made, then the conjunction
IsAcceptableTx(h, p, os, tx, bal) ==
  Bind(IsUtilityEnhancing(h, p, os, tx), LAMBDA u :
  Bind(IsAffordable(tx, bal), LAMBDA a :
     IF u.exc # NoExc
     THEN [h |-> u.h, exc |-> u.exc, val |-> FALSE, util |-> FALSE, afford |-> FALSE,
           stage |-> "utility", calls |-> <<>>]
     ELSE IF a.exc # NoExc
     THEN [h |-> u.h, exc |-> a.exc, val |-> FALSE, util |-> u.val, afford |-> FALSE,
           stage |-> "affordable", calls |-> a.calls]
     ELSE [h |-> u.h, exc |-> NoExc, val |-> u.val /\ a.val, util |-> u.val,
           afford |-> a.val, stage |-> "acceptable", calls |-> a.calls]))

\* SettleTx with no digest for a transaction settled off chain
SettleTx_OffChainNoDigest(tx, dig) ==
  IF tx.ledger_id = OFF_CHAIN
  THEN [exc |-> NoExc, digest |-> NoneStr, calls |-> <<>>]
  ELSE LET amount == tx.amount - tx.counterparty_tx_fee
           tx_fee == tx.counterparty_tx_fee + tx.sender_tx_fee
       IN IF tx.ledger_id \notin WalletLedgers
          THEN [exc |-> "AttributeError", digest |-> NoneStr, calls |-> <<>>]
          ELSE [exc |-> NoExc, digest |-> dig,
                calls |-> <<[op |-> "transfer", identifier |-> tx.ledger_id,
                             to |-> tx.counterparty, amount |-> amount,
                             tx_fee |-> tx_fee, ret |-> dig]>>]

\* SettleTx transferring the amount without taking the counterparty's fee off
SettleTx_FullAmount(tx, dig) ==
  IF tx.ledger_id = OFF_CHAIN
  THEN [exc |-> NoExc, digest |-> tx.transaction_id, calls |-> <<>>]
  ELSE LET tx_fee == tx.counterparty_tx_fee + tx.sender_tx_fee
           crypto_object == CryptoObject(tx.ledger_id)
       IN IF tx.ledger_id \notin WalletLedgers
          THEN [exc |-> "AttributeError", digest |-> NoneStr, calls |-> <<>>]
          ELSE [exc |-> NoExc, digest |-> dig,
                calls |-> <<[op |-> "transfer", identifier |-> crypto_object.identifier,
                             to |-> tx.counterparty, amount |-> tx.amount,
                             tx_fee |-> tx_fee, ret |-> dig]>>]

\* DecisionMaker._settle_tx; dig is what transfer answers if called
SettleTx(tx, dig) ==
  IF tx.ledger_id = OFF_CHAIN
  THEN [exc |-> NoExc, digest |-> tx.transaction_id, calls |-> <<>>]
  ELSE LET amount == tx.amount - tx.counterparty_tx_fee
           tx_fee == tx.counterparty_tx_fee + tx.sender_tx_fee
           crypto_object == CryptoObject(tx.ledger_id)
       IN IF tx.ledger_id \notin WalletLedgers
          THEN [exc |-> "AttributeError", digest |-> NoneStr, calls |-> <<>>]
          ELSE [exc |-> NoExc, digest |-> dig,
                calls |-> <<[op |-> "transfer", identifier |-> crypto_object.identifier,
                             to |-> tx.counterparty, amount |-> amount,
                             tx_fee |-> tx_fee, ret |-> dig]>>]

\* HandleTxMessage answering ACCEPT whatever the settlement returned
HandleTxMessage_AcceptsNullDigest(h, p, os, tx, bal, dig) ==
  Bind(IsAcceptableTx(h, p, os, tx, bal), LAMBDA acc :
    LET base == [h |-> acc.h, exc |-> acc.exc, util |-> acc.util,
                 afford |-> acc.afford, stage |-> acc.stage, digest |-> NoneStr,
                 calls |-> acc.calls, out |-> <<>>]
    IN IF acc.exc # NoExc THEN base
       ELSE IF acc.val
       THEN Bind(SettleTx(tx, dig), LAMBDA s :
              IF s.exc # NoExc
              THEN [base EXCEPT !.exc = s.exc, !.stage = "settle",
                                !.calls = @ \o s.calls]
              ELSE [base EXCEPT !.stage = "settled", !.digest = s.digest,
                                !.calls = @ \o s.calls,
                                !.out = <<RespondWith(tx, "accept", s.digest)>>])
       ELSE [base EXCEPT !.stage = "rejected",
                         !.out = <<RespondWith(tx, "reject", NoneStr)>>])

\* DecisionMaker._handle_tx_message
HandleTxMessage(h, p, os, tx, bal, dig) ==
  Bind(IsAcceptableTx(h, p, os, tx, bal), LAMBDA acc :
    LET base == [h |-> acc.h, exc |-> acc.exc, util |-> acc.util,
                 afford |-> acc.afford, stage |-> acc.stage, digest |-> NoneStr,
                 calls |-> acc.calls, out |-> <<>>]
    IN IF acc.exc # NoExc THEN base
       ELSE IF acc.val
       THEN Bind(SettleTx(tx, dig), LAMBDA s :
              IF s.exc # NoExc
              THEN [base EXCEPT !.exc = s.exc, !.stage = "settle",
                                !.calls = @ \o s.calls]
              ELSE [base EXCEPT !.stage = "settled", !.digest = s.digest,
                                !.calls = @ \o s.calls,
                                !.out = <<IF s.digest # NoneStr
                                          THEN RespondWith(tx, "accept", s.digest)
                                          ELSE RespondWith(tx, "reject", NoneStr)>>])
       ELSE [base EXCEPT !.stage = "rejected",
                         !.out = <<RespondWith(tx, "reject", NoneStr)>>])

\* what the caller holds at first: no dict, and no ownership state
CallerNew == [amount_by_currency |-> None, quantities_by_good_id |-> None,
              exchange_params_by_currency |-> None,
              utility_params_by_good_id |-> None, ownership_state |-> None]

\* the dict objects a StateUpdateMessage carries, as cells of the heap
MessageDicts(h, m) ==
  IF m.kind = "StateUpdateMessage" /\ m.protocol_id = INTERNAL_PROTOCOL_ID
  THEN Bind(NewDict(h, m.amount_by_currency), LAMBDA a :
       Bind(NewDict(a.h, m.quantities_by_good_id), LAMBDA b :
       Bind(NewDict(b.h, m.exchange_params_by_currency), LAMBDA c :
       Bind(NewDict(c.h, m.utility_params_by_good_id), LAMBDA d :
         [h |-> d.h,
          refs |-> [amount_by_currency |-> a.loc, quantities_by_good_id |-> b.loc,
                    exchange_params_by_currency |-> c.loc,
                    utility_params_by_good_id |-> d.loc]]))))
  ELSE [h |-> h,
        refs |-> [amount_by_currency |-> None, quantities_by_good_id |-> None,
                  exchange_params_by_currency |-> None,
                  utility_params_by_good_id |-> None]]

\* HandleStateUpdateMessage with the readiness set before the performative
\* is looked at
HandleStateUpdateMessage_ReadyOnAnyUpdate(h, p, os, st, m, r) ==
  IF m.performative = "initialize"
  THEN [h |-> OsInit(h, os, r.amount_by_currency, r.quantities_by_good_id),
        prefs |-> PrefInit(r.exchange_params_by_currency,
                           r.utility_params_by_good_id, m.tx_fee),
        os |-> os, status |-> READY, exc |-> NoExc]
  ELSE IF m.performative = "apply"
  THEN Bind(OsApplyStateUpdate(h, os, h[r.amount_by_currency].d,
                               h[r.quantities_by_good_id].d), LAMBDA n :
         [h |-> n.h, prefs |-> p, os |-> IF n.exc = NoExc THEN n.loc ELSE os,
          status |-> READY, exc |-> n.exc])
  ELSE [h |-> h, prefs |-> p, os |-> os, status |-> READY, exc |-> NoExc]

\* HandleStateUpdateMessage with APPLY taking the agent out of readiness
HandleStateUpdateMessage_ApplyNotReady(h, p, os, st, m, r) ==
  IF m.performative = "initialize"
  THEN [h |-> OsInit(h, os, r.amount_by_currency, r.quantities_by_good_id),
        prefs |-> PrefInit(r.exchange_params_by_currency,
                           r.utility_params_by_good_id, m.tx_fee),
        os |-> os, status |-> READY, exc |-> NoExc]
  ELSE IF m.performative = "apply"
  THEN Bind(OsApplyStateUpdate(h, os, h[r.amount_by_currency].d,
                               h[r.quantities_by_good_id].d), LAMBDA n :
         [h |-> n.h, prefs |-> p, os |-> IF n.exc = NoExc THEN n.loc ELSE os,
          status |-> NOT_READY, exc |-> n.exc])
  ELSE [h |-> h, prefs |-> p, os |-> os, status |-> st, exc |-> NoExc]

\* HandleStateUpdateMessage with APPLY initializing the preferences as well
HandleStateUpdateMessage_ApplyInitsPreferences(h, p, os, st, m, r) ==
  IF m.performative = "initialize"
  THEN [h |-> OsInit(h, os, r.amount_by_currency, r.quantities_by_good_id),
        prefs |-> PrefInit(r.exchange_params_by_currency,
                           r.utility_params_by_good_id, m.tx_fee),
        os |-> os, status |-> READY, exc |-> NoExc]
  ELSE IF m.performative = "apply"
  THEN Bind(OsApplyStateUpdate(h, os, h[r.amount_by_currency].d,
                               h[r.quantities_by_good_id].d), LAMBDA n :
         [h |-> n.h,
          prefs |-> PrefInit(r.exchange_params_by_currency,
                             r.utility_params_by_good_id, m.tx_fee),
          os |-> IF n.exc = NoExc THEN n.loc ELSE os,
          status |-> st, exc |-> n.exc])
  ELSE [h |-> h, prefs |-> p, os |-> os, status |-> st, exc |-> NoExc]

\* DecisionMaker._handle_state_update_message; r holds the message's dicts
HandleStateUpdateMessage(h, p, os, st, m, r) ==
  IF m.performative = "initialize"
  THEN [h |-> OsInit(h, os, r.amount_by_currency, r.quantities_by_good_id),
        prefs |-> PrefInit(r.exchange_params_by_currency,
                           r.utility_params_by_good_id, m.tx_fee),
        os |-> os, status |-> READY, exc |-> NoExc]
  ELSE IF m.performative = "apply"
  THEN Bind(OsApplyStateUpdate(h, os, h[r.amount_by_currency].d,
                               h[r.quantities_by_good_id].d), LAMBDA n :
         [h |-> n.h, prefs |-> p, os |-> IF n.exc = NoExc THEN n.loc ELSE os,
          status |-> st, exc |-> n.exc])
  ELSE [h |-> h, prefs |-> p, os |-> os, status |-> st, exc |-> NoExc]

\* what one pass of the loop of execute leaves: the decision maker's fields,
\* the responses put on the outbound queue and a record of what was done
Outcome(op, h, p, os, st, exc) ==
  [op |-> op, h |-> h, prefs |-> p, os |-> os, status |-> st, exc |-> exc,
   util |-> FALSE, afford |-> FALSE, stage |-> "", digest |-> NoneStr,
   calls |-> <<>>, out |-> <<>>]

\* DecisionMaker.handle raising on a message of neither class
Handle_UnrecognizedRaises(h, p, os, st, m, r, bal, dig) ==
  IF m.kind = "TransactionMessage"
  THEN Bind(HandleTxMessage(h, p, os, m, bal, dig), LAMBDA t :
         [Outcome("tx", t.h, p, os, st, t.exc) EXCEPT
            !.util = t.util, !.afford = t.afford, !.stage = t.stage,
            !.digest = t.digest, !.calls = t.calls, !.out = t.out])
  ELSE IF m.kind = "StateUpdateMessage"
  THEN Bind(HandleStateUpdateMessage(h, p, os, st, m, r), LAMBDA u :
         Outcome("state_update", u.h, u.prefs, u.os, u.status, u.exc))
  ELSE Outcome("unrecognized", h, p, os, st, "ValueError")

\* DecisionMaker.handle applying a settled transaction to the holdings
Handle_AppliesSettled(h, p, os, st, m, r, bal, dig) ==
  IF m.kind = "TransactionMessage"
  THEN Bind(HandleTxMessage(h, p, os, m, bal, dig), LAMBDA t :
         [Outcome("tx", IF t.stage = "settled" /\ t.digest # NoneStr
                        THEN OsUpdate(t.h, os, m).h ELSE t.h,
                  p, os, st, t.exc) EXCEPT
            !.util = t.util, !.afford = t.afford, !.stage = t.stage,
            !.digest = t.digest, !.calls = t.calls, !.out = t.out])
  ELSE IF m.kind = "StateUpdateMessage"
  THEN Bind(HandleStateUpdateMessage(h, p, os, st, m, r), LAMBDA u :
         Outcome("state_update", u.h, u.prefs, u.os, u.status, u.exc))
  ELSE Outcome("unrecognized", h, p, os, st, NoExc)

\* DecisionMaker.handle
Handle(h, p, os, st, m, r, bal, dig) ==
  IF m.kind = "TransactionMessage"
  THEN Bind(HandleTxMessage(h, p, os, m, bal, dig), LAMBDA t :
         [Outcome("tx", t.h, p, os, st, t.exc) EXCEPT
            !.util = t.util, !.afford = t.afford, !.stage = t.stage,
            !.digest = t.digest, !.calls = t.calls, !.out = t.out])
  ELSE IF m.kind = "StateUpdateMessage"
  THEN Bind(HandleStateUpdateMessage(h, p, os, st, m, r), LAMBDA u :
         Outcome("state_update", u.h, u.prefs, u.os, u.status, u.exc))
  ELSE Outcome("unrecognized", h, p, os, st, NoExc)

\* the body of the loop of DecisionMaker.execute, for the message taken
ExecuteBody(h, p, os, st, m, r, bal, dig) ==
  IF m.kind = "None" THEN Outcome("none", h, p, os, st, NoExc)
  ELSE IF m.protocol_id = INTERNAL_PROTOCOL_ID
  THEN Handle(h, p, os, st, m, r, bal, dig)
  ELSE Outcome("not_internal", h, p, os, st, NoExc)

\* ------------------------------------------------------------------- state
VARIABLES
  heap,         \* the cells of the heap
  dm_os,        \* DecisionMaker._ownership_state, a reference
  preferences,  \* DecisionMaker._preferences
  status,       \* GoalPursuitReadiness._status
  inq,          \* DecisionMaker._message_in_queue
  outq,         \* DecisionMaker._message_out_queue
  pc,           \* "running" while a call of execute is in its loop
  caller,       \* the dicts the caller passed to the latest init and kept
  sent,         \* the messages enqueued so far
  last          \* the latest operation: its message, ledger answers and outcome

vars == <<heap, dm_os, preferences, status, inq, outq, pc, caller, sent, last>>

\* the references the decision maker and the caller hold, and those of the
\* ownership state they lead to: every live cell is among them
RootSeq(h, os, p, c) ==
  <<os, h[os]._amount_by_currency, h[os]._quantities_by_good_id,
    p._exchange_params_by_currency, p._utility_params_by_good_id,
    c.amount_by_currency, c.quantities_by_good_id,
    c.exchange_params_by_currency, c.utility_params_by_good_id,
    c.ownership_state>>
  \o (IF c.ownership_state = None THEN <<>>
      ELSE <<h[c.ownership_state]._amount_by_currency,
             h[c.ownership_state]._quantities_by_good_id>>)

RECURSIVE Number(_, _, _)
\* number the cells of seq 1, 2, ... in the order of their first occurrence
Number(seq, map, n) ==
  IF seq = <<>> THEN map
  ELSE IF Head(seq) = None \/ map[Head(seq)] # 0
  THEN Number(Tail(seq), map, n)
  ELSE Number(Tail(seq), [map EXCEPT ![Head(seq)] = n + 1], n + 1)

\* the heap with its dead cells freed (Python's reference counting) and its
\* live cells renumbered in the order of RootSeq: an address has no meaning,
\* so two heaps that differ only in their addresses are one state
Compact(h, os, p, c) ==
  LET map == Number(RootSeq(h, os, p, c), [l \in 0..NLoc |-> 0], 0)
      live == {l \in Loc : map[l] # 0}
      Old(k) == CHOOSE l \in live : map[l] = k
      Move(cell) == IF cell.type = "OwnershipState"
                    THEN OsObj(map[cell._amount_by_currency],
                               map[cell._quantities_by_good_id])
                    ELSE cell
  IN [h |-> [k \in Loc |-> IF k <= Cardinality(live) THEN Move(h[Old(k)]) ELSE Free],
      os |-> map[os],
      prefs |-> [p EXCEPT !._exchange_params_by_currency = map[@],
                          !._utility_params_by_good_id = map[@]],
      caller |-> [f \in DOMAIN c |-> map[c[f]]]]

\* the fields of the decision maker and of the caller after an operation
Install(h, os, p, c) ==
  Bind(Compact(h, os, p, c), LAMBDA z :
    /\ heap' = z.h
    /\ dm_os' = z.os
    /\ preferences' = z.prefs
    /\ caller' = z.caller)

LastRec(op, m, u) ==
  [op |-> op, msg |-> m, exc |-> u.exc, util |-> u.util, afford |-> u.afford,
   stage |-> u.stage, digest |-> u.digest, calls |-> u.calls, out |-> u.out]

\* DecisionMaker.__init__
Init ==
  /\ heap = [l \in Loc |-> IF l = 1 THEN OsObj(None, None) ELSE Free]
  /\ dm_os = 1
  /\ preferences = PrefNew
  /\ status = NOT_READY
  /\ inq = <<>>
  /\ outq = <<>>
  /\ pc = "idle"
  /\ caller = CallerNew
  /\ sent = 0
  /\ last = LastRec("new", [kind |-> "None"],
                    Outcome("new", heap, PrefNew, dm_os, NOT_READY, NoExc))

\* the decision maker's fields after one message was handled
Commit(m, refs, u) ==
  /\ Install(u.h, u.os, u.prefs,
             IF u.op = "state_update" /\ m.performative = "initialize"
             THEN [f \in DOMAIN caller |->
                     IF f \in DOMAIN refs THEN refs[f] ELSE caller[f]]
             ELSE caller)
  /\ status' = u.status
  /\ outq' = outq \o u.out
  /\ last' = LastRec(u.op, m, u)

\* the answers the ledger can give while m is handled, a balance or None and
\* a digest or None: it is asked only for a transaction on a ledger of the
\* wallet
BalanceAnswers(m) ==
  IF m.kind = "TransactionMessage" /\ m.protocol_id = INTERNAL_PROTOCOL_ID
     /\ m.ledger_id \in WalletLedgers
  THEN {<<>>} \cup {<<b>> : b \in 0..MaxBalance} ELSE {<<>>}
DigestAnswers(m, bal) ==
  IF bal # <<>> THEN {NoneStr, "d1"} ELSE {NoneStr}

\* a producer puts a message on the inbound queue
Enqueue(m) ==
  /\ Len(inq) < MaxQueue
  /\ sent < MaxMsgs
  /\ inq' = Append(inq, m)
  /\ sent' = sent + 1
  /\ UNCHANGED <<heap, dm_os, preferences, status, outq, pc, caller, last>>

\* DecisionMaker.execute is called
StartExecute ==
  /\ pc = "idle"
  /\ pc' = "running"
  /\ UNCHANGED <<heap, dm_os, preferences, status, inq, outq, caller, sent, last>>

\* one pass of the loop of execute: take the head, handle it; an exception
\* ends the call
ExecuteStep ==
  /\ pc = "running"
  /\ inq # <<>>
  /\ \E bal \in BalanceAnswers(Head(inq)) : \E dig \in DigestAnswers(Head(inq), bal) :
       Bind(MessageDicts(heap, Head(inq)), LAMBDA md :
       Bind(ExecuteBody(md.h, preferences, dm_os, status, Head(inq), md.refs,
                        bal, dig), LAMBDA u :
         /\ Commit(Head(inq), md.refs, u)
         /\ pc' = IF u.exc # NoExc THEN "idle" ELSE "running"))
  /\ inq' = Tail(inq)
  /\ UNCHANGED sent

\* the loop of execute finds the queue empty and the call returns
FinishExecute ==
  /\ pc = "running"
  /\ inq = <<>>
  /\ pc' = "idle"
  /\ UNCHANGED <<heap, dm_os, preferences, status, inq, outq, caller, sent, last>>

\* the caller puts one message on an empty queue and calls execute, which
\* handles it and returns (or raises)
Submit(m) ==
  /\ pc = "idle"
  /\ inq = <<>>
  /\ last.op \in {"new", "seen"}
  /\ sent < MaxMsgs
  /\ \E bal \in BalanceAnswers(m) : \E dig \in DigestAnswers(m, bal) :
       Bind(MessageDicts(heap, m), LAMBDA md :
       Bind(ExecuteBody(md.h, preferences, dm_os, status, m, md.refs, bal, dig),
            LAMBDA u :
         Commit(m, md.refs, u)))
  /\ sent' = sent + 1
  /\ UNCHANGED <<inq, pc>>

\* the agent takes the responses from the outbound queue, and what the latest
\* operation did is observed no longer
GetResponses ==
  /\ pc = "idle"
  /\ last.op \notin {"new", "seen"}
  /\ outq' = <<>>
  /\ last' = LastRec("seen", [kind |-> "None"],
                     Outcome("seen", heap, preferences, dm_os, status, NoExc))
  /\ UNCHANGED <<heap, dm_os, preferences, status, inq, pc, caller, sent>>

\* a record of an operation made on an object of the decision maker directly
Direct(op) ==
  LastRec(op, [kind |-> "None"],
          Outcome(op, heap, preferences, dm_os, status, NoExc))

\* decision_maker.ownership_state.init(cur, good), the caller keeping its dicts
OwnershipInit(cur, good) ==
  /\ pc = "idle"
  /\ Bind(NewDict(heap, cur), LAMBDA a :
     Bind(NewDict(a.h, good), LAMBDA b :
       Install(OsInit(b.h, dm_os, a.loc, b.loc), dm_os, preferences,
               [caller EXCEPT !.amount_by_currency = a.loc,
                              !.quantities_by_good_id = b.loc])))
  /\ last' = Direct("OwnershipState.init")
  /\ UNCHANGED <<status, inq, outq, pc, sent>>

\* decision_maker.preferences.init(exch, util, tx_fee), likewise
PreferencesInit(exch, util, tx_fee) ==
  /\ pc = "idle"
  /\ Bind(NewDict(heap, exch), LAMBDA a :
     Bind(NewDict(a.h, util), LAMBDA b :
       Install(b.h, dm_os, PrefInit(a.loc, b.loc, tx_fee),
               [caller EXCEPT !.exchange_params_by_currency = a.loc,
                              !.utility_params_by_good_id = b.loc])))
  /\ last' = Direct("Preferences.init")
  /\ UNCHANGED <<status, inq, outq, pc, sent>>

\* GoalPursuitReadiness.update
Update(new_status) == new_status

\* decision_maker.goal_pursuit_readiness.update(new_status)
ReadinessUpdate(new_status) ==
  /\ pc = "idle"
  /\ status' = Update(new_status)
  /\ last' = Direct("GoalPursuitReadiness.update")
  /\ UNCHANGED <<heap, dm_os, preferences, inq, outq, pc, caller, sent>>

CallerFields == {"amount_by_currency", "quantities_by_good_id",
                 "exchange_params_by_currency", "utility_params_by_good_id"}

\* the caller writes into a dict it passed to an init and kept: d[k] = value
CallerMutate(field, k) ==
  /\ pc = "idle"
  /\ caller[field] # None
  /\ k \in DOMAIN heap[caller[field]].d
  /\ heap[caller[field]].d[k] # MutatedValue
  /\ heap' = [heap EXCEPT ![caller[field]] =
                Dict([heap[caller[field]].d EXCEPT ![k] = MutatedValue])]
  /\ last' = Direct("caller")
  /\ UNCHANGED <<dm_os, preferences, status, inq, outq, pc, caller, sent>>

\* the caller reads decision_maker.ownership_state and keeps the object
TakeReference ==
  /\ pc = "idle"
  /\ last.op \in {"new", "seen"}
  /\ caller.ownership_state # dm_os
  /\ Install(heap, dm_os, preferences, [caller EXCEPT !.ownership_state = dm_os])
  /\ last' = Direct("DecisionMaker.ownership_state")
  /\ UNCHANGED <<status, inq, outq, pc, sent>>

\* a record of a call of a method of decision_maker.ownership_state: its
\* argument, the exception it raised and the value it returned
OsRec(op, arg, exc, val) ==
  [Direct(op) EXCEPT !.msg = arg, !.exc = exc] @@ [val |-> val]

\* the holdings of the ownership state at self, as a value
Holdings(h, self) ==
  [amount_by_currency |-> h[h[self]._amount_by_currency].d,
   quantities_by_good_id |-> h[h[self]._quantities_by_good_id].d]

\* every holding of the ownership state at self is within the bound
HoldingsWithin(h, self) ==
  OsIsInitialized(h, self) =>
    \A f \in {"amount_by_currency", "quantities_by_good_id"} :
      \A k \in DOMAIN Holdings(h, self)[f] :
        Holdings(h, self)[f][k] \in (0 - MaxHold)..MaxHold

\* decision_maker.ownership_state.amount_by_currency, .quantities_by_good_id
OwnershipGet(field) ==
  /\ pc = "idle"
  /\ last.op \in {"new", "seen"}
  /\ Bind(IF field = "amount_by_currency" THEN OsAmountByCurrency(heap, dm_os)
          ELSE OsQuantitiesByGoodId(heap, dm_os), LAMBDA r :
       last' = OsRec("OwnershipState." \o field, [kind |-> "None"], r.exc, r.val))
  /\ UNCHANGED <<heap, dm_os, preferences, status, inq, outq, pc, caller, sent>>

\* decision_maker.ownership_state.check_transaction_is_consistent(tx)
OwnershipCheck(tx) ==
  /\ pc = "idle"
  /\ last.op \in {"new", "seen"}
  /\ Bind(CheckTransactionIsConsistent(heap, dm_os, tx), LAMBDA r :
       last' = OsRec("OwnershipState.check_transaction_is_consistent",
                     tx, r.exc, r.val))
  /\ UNCHANGED <<heap, dm_os, preferences, status, inq, outq, pc, caller, sent>>

\* decision_maker.ownership_state.update(tx)
OwnershipUpdate(tx) ==
  /\ pc = "idle"
  /\ last.op \in {"new", "seen"}
  /\ Bind(OsUpdate(heap, dm_os, tx), LAMBDA r :
       /\ HoldingsWithin(r.h, dm_os)
       /\ Install(r.h, dm_os, preferences, caller)
       /\ last' = OsRec("OwnershipState.update", tx, r.exc, <<>>))
  /\ UNCHANGED <<status, inq, outq, pc, sent>>

\* decision_maker.ownership_state.apply(txs); the state returned is looked
\* at and dropped
OwnershipApply(txs) ==
  /\ pc = "idle"
  /\ last.op \in {"new", "seen"}
  /\ Bind(OsApply(heap, dm_os, txs), LAMBDA r :
       /\ Install(r.h, dm_os, preferences, caller)
       /\ last' = OsRec("OwnershipState.apply", txs, r.exc,
                        IF r.exc = NoExc THEN Holdings(r.h, r.loc) ELSE <<>>))
  /\ UNCHANGED <<status, inq, outq, pc, sent>>

\* decision_maker.ownership_state.apply_state_update(dcur, dgood), likewise
OwnershipApplyStateUpdate(dcur, dgood) ==
  /\ pc = "idle"
  /\ last.op \in {"new", "seen"}
  /\ Bind(OsApplyStateUpdate(heap, dm_os, dcur, dgood), LAMBDA r :
       /\ Install(r.h, dm_os, preferences, caller)
       /\ last' = OsRec("OwnershipState.apply_state_update",
                        [amount_by_currency |-> dcur, quantities_by_good_id |-> dgood],
                        r.exc, IF r.exc = NoExc THEN Holdings(r.h, r.loc) ELSE <<>>))
  /\ UNCHANGED <<status, inq, outq, pc, sent>>

\* the transactions the methods of the ownership state are called with
OsTransactions ==
  {m \in TxMessages : m.ledger_id = OFF_CHAIN /\ m.counterparty_tx_fee = 0}
\* the lists of transactions apply is called with: none, one, two
OsTransactionLists ==
  {<<>>} \cup {<<t>> : t \in OsTransactions}
    \cup {<<t1, t2>> : t1 \in OsTransactions,
                       t2 \in {t \in OsTransactions : t.amount = MaxAmount
                                                      /\ t.sender_tx_fee = MaxFee}}
\* the state updates sent while the methods are called directly
OsMessages ==
  {StateUpdate("initialize", Const(Currencies, MaxHold), Const(Goods, 1),
               Const(Currencies, 1), Const(Goods, 200), 1),
   StateUpdate("apply", Const(Currencies, 1), [g \in {"g1"} |-> 1], <<>>, <<>>, 0)}

Next ==
  \/ \E m \in QueueMessages : Enqueue(m)
  \/ StartExecute
  \/ ExecuteStep
  \/ FinishExecute

\* the decision maker driven by the messages of its inbound queue
Spec == Init /\ [][Next]_vars

NextTx ==
  \/ \E m \in TxMessages \cup InitMessages : Submit(m)
  \/ GetResponses
  \/ OwnershipInit(Const(Currencies, 1), Const(Goods, 0))
  \/ PreferencesInit(Const(Currencies, 1), Const(Goods, 200), 1)

\* one message at a time, over every transaction within the bounds
SpecTx == Init /\ [][NextTx]_vars

NextApi ==
  \/ \E m \in QueueMessages : Submit(m)
  \/ GetResponses
  \/ OwnershipInit(Const(Currencies, 1), Const(Goods, 0))
  \/ PreferencesInit(Const(Currencies, 1), Const(Goods, 200), 0)
  \/ \E s \in {READY, NOT_READY} : ReadinessUpdate(s)
  \/ \E f \in CallerFields, k \in {"FET", "g1"} : CallerMutate(f, k)

\* one message at a time, and the operations of the objects the decision
\* maker exposes made directly
SpecApi == Init /\ [][NextApi]_vars

\* the threads that call execute, and where a thread is in it: outside
\* ("idle"), at the test of the loop, at get_nowait, or handling the message
\* it took; handled counts the messages its call of execute has handled
Threads == 1..NThreads
At(at, message, handled) == [at |-> at, message |-> message, handled |-> handled]
Idle == At("idle", [kind |-> "None"], 0)

\* DecisionMaker.__init__, with no thread in execute
InitThreads ==
  /\ heap = [l \in Loc |-> IF l = 1 THEN OsObj(None, None) ELSE Free]
  /\ dm_os = 1
  /\ preferences = PrefNew
  /\ status = NOT_READY
  /\ inq = <<>>
  /\ outq = <<>>
  /\ pc = [t \in Threads |-> Idle]
  /\ caller = CallerNew
  /\ sent = 0
  /\ last = LastRec("new", [kind |-> "None"],
                    Outcome("new", heap, PrefNew, dm_os, NOT_READY, NoExc))

\* thread t calls execute
ThreadCall(t) ==
  /\ pc[t].at = "idle"
  /\ pc' = [pc EXCEPT ![t] = At("test", [kind |-> "None"], 0)]
  /\ UNCHANGED <<heap, dm_os, preferences, status, inq, outq, caller, sent, last>>

\* while not self.message_in_queue.empty()
ThreadTest(t) ==
  /\ pc[t].at = "test"
  /\ pc' = [pc EXCEPT ![t] = IF inq = <<>> THEN Idle
                             ELSE At("get", [kind |-> "None"], pc[t].handled)]
  /\ UNCHANGED <<heap, dm_os, preferences, status, inq, outq, caller, sent, last>>

\* message = self.message_in_queue.get_nowait(), which raises queue.Empty on
\* an empty queue
ThreadGet(t) ==
  /\ pc[t].at = "get"
  /\ IF inq = <<>>
     THEN /\ pc' = [pc EXCEPT ![t] = Idle]
          /\ last' = LastRec("execute", [kind |-> "None"],
                             Outcome("execute", heap, preferences, dm_os, status,
                                     "Empty"))
          /\ UNCHANGED inq
     ELSE /\ pc' = [pc EXCEPT ![t] = At("handle", Head(inq), pc[t].handled)]
          /\ inq' = Tail(inq)
          /\ UNCHANGED last
  /\ UNCHANGED <<heap, dm_os, preferences, status, outq, caller, sent>>

\* the body of the loop for the message thread t took; an exception ends
\* the call
ThreadHandle(t) ==
  /\ pc[t].at = "handle"
  /\ \E bal \in BalanceAnswers(pc[t].message) :
     \E dig \in DigestAnswers(pc[t].message, bal) :
       Bind(MessageDicts(heap, pc[t].message), LAMBDA md :
       Bind(ExecuteBody(md.h, preferences, dm_os, status, pc[t].message, md.refs,
                        bal, dig), LAMBDA u :
         /\ Commit(pc[t].message, md.refs, u)
         /\ pc' = [pc EXCEPT ![t] = IF u.exc # NoExc THEN Idle
                                    ELSE At("test", [kind |-> "None"],
                                            pc[t].handled + 1)]))
  /\ UNCHANGED <<inq, sent>>

\* the messages the producers enqueue while threads call execute
ThreadMessages ==
  {Tx("t1", TRUE, 1, 0, 0, <<>>, OFF_CHAIN),
   StateUpdate("initialize", Const(Currencies, 2), Const(Goods, 1),
               Const(Currencies, 1), Const(Goods, 200), 1)}

NextThreads ==
  \/ \E m \in ThreadMessages : Enqueue(m)
  \/ \E t \in Threads : ThreadCall(t)
  \/ \E t \in Threads : ThreadTest(t)
  \/ \E t \in Threads : ThreadGet(t)
  \/ \E t \in Threads : ThreadHandle(t)

\* producers enqueue while several threads call execute
SpecThreads == InitThreads /\ [][NextThreads]_vars

NextOs ==
  \/ \E m \in OsMessages : Submit(m)
  \/ GetResponses
  \/ OwnershipInit(Const(Currencies, MaxHold), Const(Goods, 1))
  \/ \E f \in {"amount_by_currency", "quantities_by_good_id"} : OwnershipGet(f)
  \/ \E tx \in OsTransactions : OwnershipCheck(tx)
  \/ \E tx \in OsTransactions : OwnershipUpdate(tx)
  \/ \E txs \in OsTransactionLists : OwnershipApply(txs)
  \/ \E d \in {0, 1} :
       OwnershipApplyStateUpdate(Const(Currencies, d), [g \in {"g1"} |-> 1])

\* the methods of the ownership state called directly, between state updates
SpecOs == Init /\ [][NextOs]_vars

\* the state updates sent while a reference to the ownership state is held
RefMessages ==
  {StateUpdate("initialize", Const(Currencies, a), Const(Goods, 1),
               Const(Currencies, 1), Const(Goods, 200), f) :
     a \in {0, MaxAmount}, f \in 0..MaxTxFee}
  \cup {StateUpdate("apply", Const(Currencies, d), [g \in {"g1"} |-> 1],
                    <<>>, <<>>, 0) : d \in {0, 1}}

\* preferences._split_tx_fees(tx_fee) is called with a fee near 0, 2^53 or 2^54
SplitTxFeesCall ==
  /\ pc = "idle"
  /\ last.op \in {"new", "seen"}
  /\ \E a \in {0, 2, 4} : \E b \in 0..(2 * MaxTxFee) :
       last' = OsRec("Preferences._split_tx_fees", <<a, b>>, NoExc,
                     SplitTxFeesFloat(<<a, b>>))
  /\ UNCHANGED <<heap, dm_os, preferences, status, inq, outq, pc, caller, sent>>

NextRef ==
  \/ \E m \in RefMessages : Submit(m)
  \/ GetResponses
  \/ TakeReference
  \/ SplitTxFeesCall

\* state updates, and a caller that keeps the ownership state it was given
SpecRef == Init /\ [][NextRef]_vars

\* ------------------------------------------------ a reader beside execute
\* a field of the decision maker as a reader finds it: not set, or a dict
Deref(h, l) ==
  IF l = None THEN [set |-> FALSE, d |-> <<>>] ELSE [set |-> TRUE, d |-> h[l].d]

\* what a reader gets who reads ownership_state, preferences and
\* goal_pursuit_readiness of the decision maker at once
Snapshot(h, os, p, st) ==
  [amount_by_currency |-> Deref(h, h[os]._amount_by_currency),
   quantities_by_good_id |-> Deref(h, h[os]._quantities_by_good_id),
   exchange_params_by_currency |-> Deref(h, p._exchange_params_by_currency),
   utility_params_by_good_id |-> Deref(h, p._utility_params_by_good_id),
   transaction_fees |-> p._transaction_fees,
   status |-> st]

\* the statement _handle_state_update_message is at, the message it handles
\* and what a reader found before the handling began
Writer(at, message, before) == [at |-> at, message |-> message, before |-> before]
WriterIdle == Writer("idle", [kind |-> "None"], <<>>)

InitReader ==
  /\ heap = [l \in Loc |-> IF l = 1 THEN OsObj(None, None) ELSE Free]
  /\ dm_os = 1
  /\ preferences = PrefNew
  /\ status = NOT_READY
  /\ inq = <<>>
  /\ outq = <<>>
  /\ pc = WriterIdle
  /\ caller = CallerNew
  /\ sent = 0
  /\ last = [op |-> "new"]

\* execute takes a state update from the queue and handle dispatches on its
\* performative
TakeMessage ==
  /\ pc.at = "idle"
  /\ inq # <<>>
  /\ pc' = Writer(IF Head(inq).performative = "initialize"
                  THEN "os_amount" ELSE "apply",
                  Head(inq), Snapshot(heap, dm_os, preferences, status))
  /\ inq' = Tail(inq)
  /\ UNCHANGED <<heap, dm_os, preferences, status, outq, caller, sent, last>>

\* OwnershipState.init, first assignment
InitAmount ==
  /\ pc.at = "os_amount"
  /\ Bind(NewDict(heap, pc.message.amount_by_currency), LAMBDA a :
       Install([a.h EXCEPT ![dm_os]._amount_by_currency = a.loc],
               dm_os, preferences, caller))
  /\ pc' = [pc EXCEPT !.at = "os_quantities"]
  /\ UNCHANGED <<status, inq, outq, sent, last>>

\* OwnershipState.init, second assignment
InitQuantities ==
  /\ pc.at = "os_quantities"
  /\ Bind(NewDict(heap, pc.message.quantities_by_good_id), LAMBDA a :
       Install([a.h EXCEPT ![dm_os]._quantities_by_good_id = a.loc],
               dm_os, preferences, caller))
  /\ pc' = [pc EXCEPT !.at = "pref_exchange"]
  /\ UNCHANGED <<status, inq, outq, sent, last>>

\* Preferences.init, first assignment
InitExchange ==
  /\ pc.at = "pref_exchange"
  /\ Bind(NewDict(heap, pc.message.exchange_params_by_currency), LAMBDA a :
       Install(a.h, dm_os,
               [preferences EXCEPT !._exchange_params_by_currency = a.loc],
               caller))
  /\ pc' = [pc EXCEPT !.at = "pref_utility"]
  /\ UNCHANGED <<status, inq, outq, sent, last>>

\* Preferences.init, second assignment
InitUtility ==
  /\ pc.at = "pref_utility"
  /\ Bind(NewDict(heap, pc.message.utility_params_by_good_id), LAMBDA a :
       Install(a.h, dm_os,
               [preferences EXCEPT !._utility_params_by_good_id = a.loc],
               caller))
  /\ pc' = [pc EXCEPT !.at = "pref_fees"]
  /\ UNCHANGED <<status, inq, outq, sent, last>>

\* Preferences.init, third assignment
InitFees ==
  /\ pc.at = "pref_fees"
  /\ preferences' = [preferences EXCEPT
                       !._transaction_fees = <<SplitTxFees(pc.message.tx_fee)>>]
  /\ pc' = [pc EXCEPT !.at = "ready"]
  /\ UNCHANGED <<heap, dm_os, status, inq, outq, caller, sent, last>>

\* goal_pursuit_readiness.update(READY), and the handling is over
InitReady ==
  /\ pc.at = "ready"
  /\ status' = READY
  /\ pc' = WriterIdle
  /\ UNCHANGED <<heap, dm_os, preferences, inq, outq, caller, sent, last>>

\* APPLY: the new ownership state is built aside and one assignment puts it
\* in the place of the old one; an exception leaves the old one
ApplySwap ==
  /\ pc.at = "apply"
  /\ Bind(OsApplyStateUpdate(heap, dm_os, pc.message.amount_by_currency,
                             pc.message.quantities_by_good_id), LAMBDA n :
       Install(n.h, IF n.exc = NoExc THEN n.loc ELSE dm_os, preferences, caller))
  /\ pc' = WriterIdle
  /\ UNCHANGED <<status, inq, outq, sent, last>>

\* another thread reads the state of the decision maker
Read ==
  /\ last' = [op |-> "read", at |-> pc.at, message |-> pc.message,
              before |-> pc.before,
              val |-> Snapshot(heap, dm_os, preferences, status)]
  /\ UNCHANGED <<heap, dm_os, preferences, status, inq, outq, pc, caller, sent>>

\* the state updates put on the queue beside a reader
ReaderMessages ==
  {StateUpdate("initialize", Const(Currencies, a), Const(Goods, a),
               Const(Currencies, 1), Const(Goods, 200), a) : a \in {1, 2}}
  \cup {StateUpdate("apply", Const(Currencies, 1), [g \in {"g1"} |-> 1],
                    <<>>, <<>>, 0)}

NextReader ==
  \/ \E m \in ReaderMessages : Enqueue(m)
  \/ TakeMessage
  \/ InitAmount
  \/ InitQuantities
  \/ InitExchange
  \/ InitUtility
  \/ InitFees
  \/ InitReady
  \/ ApplySwap
  \/ Read

\* state updates handled statement by statement while another thread reads
SpecReader == InitReader /\ [][NextReader]_vars

\* ---------------------------------------------------------- search models
\* a value of type t: an int n is v = n, a bool is 0 or 1, a str is its rank
Val(t, v) == [type |-> t, val |-> v, items |-> <<>>]
\* a list, tuple or set of values
Coll(t, items) == [type |-> t, val |-> 0, items |-> items]

Values ==
  {Val("int", n) : n \in 0..MaxInt} \cup {Val("bool", b) : b \in 0..1}
  \cup {Val("str", r) : r \in 1..MaxStr}

\* isinstance(x, t): bool is a subclass of int
IsInstance(x, t) == x.type = t \/ (x.type = "bool" /\ t = "int")
\* a == b of Python: numbers by value (True == 1), strs by content, and a
\* number is never equal to a str
PyEq(a, b) == (a.type = "str") = (b.type = "str") /\ a.val = b.val
\* a < b and a <= b are defined between numbers and between strs
Comparable(a, b) == (a.type = "str") = (b.type = "str")

\* ConstraintType.check_validity: what the constructor enforces
ConstraintTypeCheckValidity(type, value) ==
  CASE type \in {"==", "!="} -> value.type \in {"int", "str", "bool"}
    [] type \in {"<", "<=", ">", ">="} ->
         \E t \in {"int", "str"} : IsInstance(value, t)
    [] type = "within" ->
         /\ value.type \in {"list", "tuple"}
         /\ Len(value.items) = 2
         /\ IsInstance(value.items[1], value.items[2].type)
         /\ IsInstance(value.items[2], value.items[1].type)
    [] type \in {"in", "not_in"} ->
         /\ value.type \in {"list", "tuple", "set"}
         /\ \A i \in 1..Len(value.items) :
              IsInstance(value.items[i], value.items[1].type)
    [] OTHER -> FALSE

\* ConstraintType(type, value)
ConstraintType(type, value) == [type |-> type, value |-> value]

\* the WITHIN branch with both ends left out
Within_Exclusive(low, value, high) ==
  IF ~Comparable(low, value) THEN [exc |-> "TypeError", val |-> FALSE]
  ELSE [exc |-> NoExc, val |-> low.val < value.val /\ value.val < high.val]

\* the WITHIN branch of ConstraintType.check: low <= value <= high
Within(low, value, high) ==
  IF ~Comparable(low, value) THEN [exc |-> "TypeError", val |-> FALSE]
  ELSE [exc |-> NoExc, val |-> low.val <= value.val /\ value.val <= high.val]

\* ConstraintType.check: the operand self.value is the left operand of the
\* comparison
ConstraintTypeCheck(self, value) ==
  LET Ret(b) == [exc |-> NoExc, val |-> b]
      Ordered(b) == IF Comparable(self.value, value) THEN Ret(b)
                    ELSE [exc |-> "TypeError", val |-> FALSE]
  IN CASE self.type = "==" -> Ret(PyEq(self.value, value))
       [] self.type = "!=" -> Ret(~PyEq(self.value, value))
       [] self.type = "<" -> Ordered(self.value.val < value.val)
       [] self.type = "<=" -> Ordered(self.value.val <= value.val)
       [] self.type = ">" -> Ordered(self.value.val > value.val)
       [] self.type = ">=" -> Ordered(self.value.val >= value.val)
       [] self.type = "within" ->
            Within(self.value.items[1], value, self.value.items[2])
       [] self.type = "in" ->
            Ret(\E i \in 1..Len(self.value.items) : PyEq(self.value.items[i], value))
       [] self.type = "not_in" ->
            Ret(~\E i \in 1..Len(self.value.items) : PyEq(self.value.items[i], value))

\* the enum ConstraintTypes, but for "distance"
ConstraintTypes ==
  {"==", "!=", "<", "<=", ">", ">=", "within", "in", "not_in"}
\* the operands given to the constructor: a value, a pair, a list of at
\* most two values and a set of at most one
Operands ==
  Values \cup {Coll("tuple", <<a, b>>) : a \in Values, b \in Values}
  \cup {Coll("list", <<>>)} \cup {Coll("list", <<a>>) : a \in Values}
  \cup {Coll("list", <<a, b>>) : a \in Values, b \in Values}
  \cup {Coll("set", <<>>)} \cup {Coll("set", <<a>>) : a \in Values}
\* every constraint type the constructor accepts
ConstraintTypeInputs ==
  {ConstraintType(t, v) : <<t, v>> \in
     {x \in ConstraintTypes \X Operands : ConstraintTypeCheckValidity(x[1], x[2])}}

\* ConstraintType(type, value) is called: enforce raises on an operand that
\* check_validity refuses
ConstraintTypeCall ==
  /\ last.op = "new"
  /\ \E t \in ConstraintTypes : \E v \in Operands :
       last' = [op |-> "ConstraintType", type |-> t, value |-> v,
                exc |-> IF ConstraintTypeCheckValidity(t, v) THEN NoExc
                        ELSE "AEAEnforceError"]
  /\ UNCHANGED <<heap, dm_os, preferences, status, inq, outq, pc, caller, sent>>

\* ConstraintType.encode: a Relation with the value in the field of its type,
\* a Range with the pair in the field of the type of its first end (none for
\* a bool), a Set with the values in the field of the type of self.value[0]
\* (str for no element), which a set does not have
ConstraintTypeEncode(self) ==
  LET Field(t) == CASE t = "bool" -> "b" [] t = "int" -> "i" [] t = "str" -> "s"
      items == self.value.items
      Pb(category, case, vals) ==
        [exc |-> NoExc, category |-> category, op |-> self.type, case |-> case,
         vals |-> vals]
  IN CASE self.type = "within" ->
            IF items[1].type = "bool" THEN Pb("range", NoneStr, <<>>)
            ELSE Pb("range", Field(items[1].type), <<items[1].val, items[2].val>>)
       [] self.type \in {"in", "not_in"} ->
            IF items = <<>> THEN Pb("set", "s", <<>>)
            ELSE IF self.value.type = "set" THEN [exc |-> "TypeError"]
            ELSE Pb("set", Field(items[1].type), [i \in DOMAIN items |-> items[i].val])
       [] OTHER -> Pb("relation", Field(self.value.type), <<self.value.val>>)

\* ConstraintType.decode: the constraint type of the operation with the value
\* of the field that is set, a Range as a tuple and a Set as the list of its
\* values; None, here a record of type None, for a Range with no field set
ConstraintTypeDecode(pb) ==
  LET Type(case) == CASE case = "b" -> "bool" [] case = "i" -> "int" [] case = "s" -> "str"
      vals == [i \in DOMAIN pb.vals |-> Val(Type(pb.case), pb.vals[i])]
  IN CASE pb.category = "relation" -> ConstraintType(pb.op, vals[1])
       [] pb.category = "range" ->
            IF pb.case = NoneStr THEN [type |-> NoneStr]
            ELSE ConstraintType("within", Coll("tuple", vals))
       [] pb.category = "set" -> ConstraintType(pb.op, Coll("list", vals))

\* constraint_type.encode() is called and the result decoded and compared
\* with the constraint type by __eq__: the types and the values are equal,
\* a list to a list and a tuple to a tuple only
ConstraintTypeEncodeCall ==
  /\ last.op = "new"
  /\ \E ct \in ConstraintTypeInputs :
       Bind(ConstraintTypeEncode(ct), LAMBDA pb :
         Bind(IF pb.exc = NoExc THEN ConstraintTypeDecode(pb) ELSE [type |-> NoneStr],
              LAMBDA d :
           last' = [op |-> "ConstraintType.encode", self |-> ct, exc |-> pb.exc,
                    decoded |-> d,
                    equal |->
                      /\ d.type = ct.type
                      /\ d.value.type \in {"list", "tuple", "set"}
                           => d.value.type = ct.value.type
                      /\ d.value.type \notin {"list", "tuple", "set"}
                           => PyEq(d.value, ct.value)
                      /\ Len(d.value.items) = Len(ct.value.items)
                      /\ \A i \in DOMAIN d.value.items :
                           PyEq(d.value.items[i], ct.value.items[i])]))
  /\ UNCHANGED <<heap, dm_os, preferences, status, inq, outq, pc, caller, sent>>

\* constraint_type.check(value) is called
ConstraintTypeCheckCall ==
  /\ last.op = "new"
  /\ \E ct \in ConstraintTypeInputs : \E v \in Values :
       Bind(ConstraintTypeCheck(ct, v), LAMBDA r :
         last' = [op |-> "ConstraintType.check", self |-> ct, value |-> v,
                  exc |-> r.exc, val |-> r.val])
  /\ UNCHANGED <<heap, dm_os, preferences, status, inq, outq, pc, caller, sent>>

\* Description(values): the values of its attributes by name
Names == {"genre", "year"}
Descriptions ==
  {[values |-> f] : f \in UNION {[D -> Values] : D \in SUBSET Names}}

\* Constraint(attribute_name, constraint_type)
Constraint(attribute_name, constraint_type) ==
  [kind |-> "Constraint", attribute_name |-> attribute_name,
   constraint_type |-> constraint_type]

\* Constraint.check: False for an absent attribute and for a value that is
\* no instance of the operand's type (of the type of the first element of a
\* collection, which next(iter(...)) takes), else constraint_type.check
ConstraintCheck(self, description) ==
  LET operand == self.constraint_type.value
      value == description.values[self.attribute_name]
  IN IF self.attribute_name \notin DOMAIN description.values
     THEN [exc |-> NoExc, val |-> FALSE]
     ELSE IF operand.type \in {"list", "tuple", "set"}
     THEN IF operand.items = <<>> THEN [exc |-> "StopIteration", val |-> FALSE]
          ELSE IF ~IsInstance(value, operand.items[1].type)
          THEN [exc |-> NoExc, val |-> FALSE]
          ELSE ConstraintTypeCheck(self.constraint_type, value)
     ELSE IF ~IsInstance(value, operand.type)
          THEN [exc |-> NoExc, val |-> FALSE]
          ELSE ConstraintTypeCheck(self.constraint_type, value)

\* constraint.check(description) is called
ConstraintCheckCall ==
  /\ last.op = "new"
  /\ \E n \in Names : \E ct \in ConstraintTypeInputs : \E d \in Descriptions :
       Bind(ConstraintCheck(Constraint(n, ct), d), LAMBDA r :
         last' = [op |-> "Constraint.check", self |-> Constraint(n, ct),
                  description |-> d, exc |-> r.exc, val |-> r.val])
  /\ UNCHANGED <<heap, dm_os, preferences, status, inq, outq, pc, caller, sent>>

\* And(constraints), Or(constraints), Not(constraint)
And(constraints) == [kind |-> "And", constraints |-> constraints]
Or(constraints) == [kind |-> "Or", constraints |-> constraints]
Not(constraint) == [kind |-> "Not", constraints |-> <<constraint>>]

\* the expressions a query is made of: two constraints whose check raises
\* nothing, and And, Or (of no, one or two expressions) and Not over them,
\* nested twice
Exprs ==
  LET Lists(S) == {<<>>} \cup {<<a>> : a \in S} \cup {<<a, b>> : a \in S, b \in S}
      Over(S) == S \cup {And(l) : l \in Lists(S)} \cup {Or(l) : l \in Lists(S)}
                 \cup {Not(e) : e \in S}
  IN Over(Over(
       {Constraint("year", ConstraintType("==", Val("int", 1))),
        Constraint("genre", ConstraintType("in", Coll("list", <<Val("str", 1)>>)))}))

RECURSIVE Check(_, _)
\* ConstraintExpr.check with Not.check returning what its constraint returns
Check_NotIsIdentity(self, description) ==
  CASE self.kind = "Constraint" -> ConstraintCheck(self, description).val
    [] self.kind = "And" ->
         \A i \in 1..Len(self.constraints) : Check(self.constraints[i], description)
    [] self.kind = "Or" ->
         \E i \in 1..Len(self.constraints) : Check(self.constraints[i], description)
    [] self.kind = "Not" -> Check(self.constraints[1], description)

\* ConstraintExpr.check: Constraint.check, And.check (all), Or.check (any)
\* and Not.check (not)
Check(self, description) ==
  CASE self.kind = "Constraint" -> ConstraintCheck(self, description).val
    [] self.kind = "And" ->
         \A i \in 1..Len(self.constraints) : Check(self.constraints[i], description)
    [] self.kind = "Or" ->
         \E i \in 1..Len(self.constraints) : Check(self.constraints[i], description)
    [] self.kind = "Not" -> ~Check(self.constraints[1], description)

RECURSIVE CheckValidity(_)
\* check_validity: that of And and Or, which goes through the children in
\* order, and the one Constraint and Not inherit from ConstraintExpr, which
\* returns None; the value is the exception raised
CheckValidity(self) ==
  IF self.kind \in {"And", "Or"}
  THEN IF Len(self.constraints) < 2 THEN "ValueError"
       ELSE IF \E i \in 1..Len(self.constraints) :
                 CheckValidity(self.constraints[i]) # NoExc
       THEN "ValueError"
       ELSE NoExc
  ELSE NoExc

\* expression.check_validity() is called
CheckValidityCall ==
  /\ last.op = "new"
  /\ \E e \in Exprs :
       last' = [op |-> "ConstraintExpr.check_validity", self |-> e,
                exc |-> CheckValidity(e)]
  /\ UNCHANGED <<heap, dm_os, preferences, status, inq, outq, pc, caller, sent>>

\* expression.check(description) is called
ExprCheckCall ==
  /\ last.op = "new"
  /\ \E e \in {x \in Exprs : x.kind # "Constraint"} : \E d \in Descriptions :
       last' = [op |-> "ConstraintExpr.check", self |-> e, description |-> d,
                exc |-> NoExc, val |-> Check(e, d)]
  /\ UNCHANGED <<heap, dm_os, preferences, status, inq, outq, pc, caller, sent>>

\* Attribute(name, type, is_required)
Attribute(name, type, is_required) ==
  [name |-> name, type |-> type, is_required |-> is_required]
\* the attribute names a data model is built from, in the order of str
AttributeNames == <<"author", "genre", "year">>
Before(a, b) ==
  (CHOOSE i \in DOMAIN AttributeNames : AttributeNames[i] = a)
    < (CHOOSE i \in DOMAIN AttributeNames : AttributeNames[i] = b)
RECURSIVE Sorted(_)
\* sorted(attributes, key=lambda x: x.name): stable, by insertion from the end
Sorted(attributes) ==
  IF attributes = <<>> THEN <<>>
  ELSE LET rest == Sorted(Tail(attributes))
           a == Head(attributes)
           k == Cardinality({i \in DOMAIN rest : Before(rest[i].name, a.name)})
       IN SubSeq(rest, 1, k) \o <<a>> \o SubSeq(rest, k + 1, Len(rest))

\* DataModel.__init__ keeping the attributes in the order given
DataModel_Unsorted(attributes) ==
  LET names == {attributes[i].name : i \in DOMAIN attributes}
  IN IF Len(attributes) # Cardinality(names) THEN [exc |-> "ValueError"]
     ELSE [exc |-> NoExc, attributes |-> attributes,
           attributes_by_name |->
             [n \in names |->
                attributes[CHOOSE i \in DOMAIN attributes : attributes[i].name = n]]]

\* DataModel.__init__: sort by name, refuse a name that occurs twice, index
\* the attributes by name
DataModel(attributes) ==
  LET sorted == Sorted(attributes)
      names == {sorted[i].name : i \in DOMAIN sorted}
  IN IF Len(sorted) # Cardinality(names) THEN [exc |-> "ValueError"]
     ELSE [exc |-> NoExc, attributes |-> sorted,
           attributes_by_name |->
             [n \in names |->
                sorted[CHOOSE i \in DOMAIN sorted : sorted[i].name = n]]]

\* the lists of at most MaxAttrs attributes
AttributeLists ==
  LET Attributes ==
        {Attribute(AttributeNames[i], t, r) :
           i \in DOMAIN AttributeNames, t \in {"int", "str", "bool"}, r \in BOOLEAN}
  IN UNION {[1..n -> Attributes] : n \in 0..MaxAttrs}

\* DataModel(name, attributes) is called
DataModelCall ==
  /\ last.op = "new"
  /\ \E l \in AttributeLists :
       last' = [op |-> "DataModel", attributes |-> l, val |-> DataModel(l),
                exc |-> DataModel(l).exc]
  /\ UNCHANGED <<heap, dm_os, preferences, status, inq, outq, pc, caller, sent>>

\* ConstraintType.get_data_type: the type of the operand, or of the first
\* element of a collection
GetDataType(self) ==
  IF self.value.type \in {"list", "tuple", "set"} THEN self.value.items[1].type
  ELSE self.value.type

RECURSIVE IsValid(_, _)
\* is_valid of Constraint, And, Or and Not
IsValid(self, data_model) ==
  CASE self.kind = "Constraint" ->
         /\ self.attribute_name \in DOMAIN data_model.attributes_by_name
         /\ GetDataType(self.constraint_type)
              = data_model.attributes_by_name[self.attribute_name].type
    [] self.kind \in {"And", "Or"} ->
         \A i \in 1..Len(self.constraints) : IsValid(self.constraints[i], data_model)
    [] self.kind = "Not" -> IsValid(self.constraints[1], data_model)

\* Query.__init__ never looking at the data model
Query_IgnoresModel(constraints, model) ==
  IF constraints.type # "list" THEN [exc |-> "ValueError"]
  ELSE [exc |-> NoExc, constraints |-> constraints.items, model |-> model]

\* Query.__init__ with check_validity and is_valid: the constraints must be
\* a list, and valid for the model if there is one
Query(constraints, model) ==
  IF constraints.type # "list" THEN [exc |-> "ValueError"]
  ELSE IF model.exc # NoneStr
          /\ ~\A i \in 1..Len(constraints.items) : IsValid(constraints.items[i], model)
  THEN [exc |-> "ValueError"]
  ELSE [exc |-> NoExc, constraints |-> constraints.items, model |-> model]

\* Query.check: any
QueryCheck_Any(self, description) ==
  \E i \in 1..Len(self.constraints) : Check(self.constraints[i], description)

\* Query.check: all
QueryCheck(self, description) ==
  \A i \in 1..Len(self.constraints) : Check(self.constraints[i], description)

\* the constraints argument of Query(...): a list or a tuple of at most two
\* expressions, over attributes of either type
QueryConstraints ==
  LET year == Constraint("year", ConstraintType("==", Val("int", 1)))
      genre == Constraint("genre", ConstraintType("in", Coll("list", <<Val("str", 1)>>)))
      S == {year, genre, Not(year), And(<<year, genre>>), Or(<<genre>>),
            Constraint("year", ConstraintType("<", Val("bool", 1)))}
  IN {Coll(t, l) : t \in {"list", "tuple"},
                   l \in {<<>>} \cup {<<a>> : a \in S} \cup {<<a, b>> : a \in S, b \in S}}
\* the model argument: None or a data model
NoModel == [exc |-> NoneStr]
DataModels ==
  {NoModel} \cup {DataModel(l) : l \in {x \in AttributeLists : DataModel(x).exc = NoExc}}

\* Description.__init__ with generate_data_model and _check_consistency: the
\* model given, or one with a required attribute of the type of each value;
\* every required attribute has a value, every value an attribute, and every
\* value is an instance of the type of its attribute and of an allowed type
Description(values, data_model) ==
  LET keys == SelectSeq(AttributeNames, LAMBDA n : n \in DOMAIN values)
      model == IF data_model # NoModel THEN data_model
               ELSE DataModel([i \in DOMAIN keys |->
                                 Attribute(keys[i], values[keys[i]].type, TRUE)])
      attributes == model.attributes
      consistent ==
        /\ \A i \in DOMAIN attributes :
             attributes[i].is_required => attributes[i].name \in DOMAIN values
        /\ \A key \in DOMAIN values : key \in DOMAIN model.attributes_by_name
        /\ \A key \in DOMAIN values :
             /\ IsInstance(values[key], model.attributes_by_name[key].type)
             /\ values[key].type \in {"int", "str", "bool"}
  IN IF consistent THEN [exc |-> NoExc, values |-> values, data_model |-> model]
     ELSE [exc |-> "AttributeInconsistencyException"]

\* Description(values, data_model) is called, the values scalars or a list
DescriptionCall ==
  /\ last.op = "new"
  /\ \E D \in SUBSET Names : \E f \in [D -> Values \cup {Coll("list", <<>>)}] :
       \E m \in DataModels :
         last' = [op |-> "Description", values |-> f, data_model |-> m,
                  val |-> Description(f, m), exc |-> Description(f, m).exc]
  /\ UNCHANGED <<heap, dm_os, preferences, status, inq, outq, pc, caller, sent>>

\* Query(constraints, model) is called
QueryCall ==
  /\ last.op = "new"
  /\ \E cs \in QueryConstraints : \E m \in DataModels :
       last' = [op |-> "Query", constraints |-> cs, model |-> m,
                val |-> Query(cs, m), exc |-> Query(cs, m).exc]
  /\ UNCHANGED <<heap, dm_os, preferences, status, inq, outq, pc, caller, sent>>

\* query.check(description) is called on a query built without a model
QueryCheckCall ==
  /\ last.op = "new"
  /\ \E cs \in {x \in QueryConstraints : x.type = "list"} : \E d \in Descriptions :
       last' = [op |-> "Query.check", self |-> Query(cs, NoModel),
                description |-> d, exc |-> NoExc,
                val |-> QueryCheck(Query(cs, NoModel), d)]
  /\ UNCHANGED <<heap, dm_os, preferences, status, inq, outq, pc, caller, sent>>

NextSearch ==
  \/ ConstraintTypeCall
  \/ ConstraintTypeEncodeCall
  \/ ConstraintTypeCheckCall
  \/ ConstraintCheckCall
  \/ ExprCheckCall
  \/ CheckValidityCall
  \/ DataModelCall
  \/ DescriptionCall
  \/ QueryCall
  \/ QueryCheckCall

\* the methods of the search models, each called once on every input
SpecSearch == Init /\ [][NextSearch]_vars

\* ------------------------------------------------- generic buyer dialogues
\* FipaDialogue.__init__: neither the terms nor the ledger api dialogue is set
FipaDialogueInit ==
  /\ last.op = "new"
  /\ last' = [op |-> "FipaDialogue",
              self |-> [_terms |-> None, _associated_ledger_api_dialogue |-> None],
              exc |-> NoExc, val |-> None]
  /\ UNCHANGED <<heap, dm_os, preferences, status, inq, outq, pc, caller, sent>>

\* dialogue.terms is read
TermsGet ==
  /\ last.op # "new"
  /\ last' = [op |-> "terms", self |-> last.self,
              exc |-> IF last.self._terms = None THEN "AEAEnforceError" ELSE NoExc,
              val |-> last.self._terms]
  /\ UNCHANGED <<heap, dm_os, preferences, status, inq, outq, pc, caller, sent>>

\* dialogue.terms = terms storing the terms whatever is set
TermsSet_Overwrites ==
  /\ last.op # "new"
  /\ \E terms \in 1..MaxTerms :
       last' = [op |-> "terms.setter", self |-> [last.self EXCEPT !._terms = terms],
                exc |-> NoExc, val |-> terms]
  /\ UNCHANGED <<heap, dm_os, preferences, status, inq, outq, pc, caller, sent>>

\* dialogue.terms = terms: enforce raises if terms are set already
TermsSet ==
  /\ last.op # "new"
  /\ \E terms \in 1..MaxTerms :
       last' = IF last.self._terms = None
               THEN [op |-> "terms.setter",
                     self |-> [last.self EXCEPT !._terms = terms],
                     exc |-> NoExc, val |-> terms]
               ELSE [op |-> "terms.setter", self |-> last.self,
                     exc |-> "AEAEnforceError", val |-> terms]
  /\ UNCHANGED <<heap, dm_os, preferences, status, inq, outq, pc, caller, sent>>

\* dialogue.associated_ledger_api_dialogue is read
AssociatedLedgerApiDialogueGet ==
  /\ last.op # "new"
  /\ last' = [op |-> "associated_ledger_api_dialogue", self |-> last.self,
              exc |-> IF last.self._associated_ledger_api_dialogue = None
                      THEN "AEAEnforceError" ELSE NoExc,
              val |-> last.self._associated_ledger_api_dialogue]
  /\ UNCHANGED <<heap, dm_os, preferences, status, inq, outq, pc, caller, sent>>

\* dialogue.associated_ledger_api_dialogue = ledger_api_dialogue: enforce
\* raises if one is set already
AssociatedLedgerApiDialogueSet ==
  /\ last.op # "new"
  /\ \E ledger_api_dialogue \in 1..MaxTerms :
       last' = IF last.self._associated_ledger_api_dialogue = None
               THEN [op |-> "associated_ledger_api_dialogue.setter",
                     self |-> [last.self EXCEPT
                                 !._associated_ledger_api_dialogue = ledger_api_dialogue],
                     exc |-> NoExc, val |-> ledger_api_dialogue]
               ELSE [op |-> "associated_ledger_api_dialogue.setter", self |-> last.self,
                     exc |-> "AEAEnforceError", val |-> ledger_api_dialogue]
  /\ UNCHANGED <<heap, dm_os, preferences, status, inq, outq, pc, caller, sent>>

NextFipa ==
  \/ FipaDialogueInit
  \/ TermsGet
  \/ TermsSet
  \/ AssociatedLedgerApiDialogueGet
  \/ AssociatedLedgerApiDialogueSet

\* one FipaDialogue of the generic buyer, its properties read and set in any
\* order
SpecFipa == Init /\ [][NextFipa]_vars

\* ------------------------------------------------- contract_api dialogues
INITIAL_PERFORMATIVES ==
  {"get_deploy_transaction", "get_raw_transaction", "get_raw_message", "get_state"}
TERMINAL_PERFORMATIVES == {"state", "raw_transaction", "raw_message"}

\* VALID_REPLIES with a RAW_TRANSACTION that may be answered by an ERROR
VALID_REPLIES_TransactionAnswered ==
  [performative \in INITIAL_PERFORMATIVES \cup TERMINAL_PERFORMATIVES \cup {"error"} |->
     CASE performative \in {"get_deploy_transaction", "get_raw_transaction"} ->
            {"raw_transaction", "error"}
       [] performative = "get_raw_message" -> {"raw_message", "error"}
       [] performative = "get_state" -> {"state", "error"}
       [] performative = "raw_transaction" -> {"error"}
       [] OTHER -> {}]

VALID_REPLIES ==
  [performative \in INITIAL_PERFORMATIVES \cup TERMINAL_PERFORMATIVES \cup {"error"} |->
     CASE performative = "error" -> {}
       [] performative = "get_deploy_transaction" -> {"raw_transaction", "error"}
       [] performative = "get_raw_message" -> {"raw_message", "error"}
       [] performative = "get_raw_transaction" -> {"raw_transaction", "error"}
       [] performative = "get_state" -> {"state", "error"}
       [] performative = "raw_message" -> {}
       [] performative = "raw_transaction" -> {}
       [] performative = "state" -> {}]

\* the dialogues ContractApiDialogues keeps track of, each the performatives
\* of its messages in order: none at first
ContractApiDialogues ==
  IF last.op = "new" THEN [i \in 1..MaxDialogues |-> <<>>] ELSE last.dialogues

\* a dialogue is opened by a message with an initial performative
DialogueCreate ==
  /\ \E i \in 1..MaxDialogues : \E performative \in INITIAL_PERFORMATIVES :
       /\ ContractApiDialogues[i] = <<>>
       /\ last' = [op |-> "create",
                   dialogues |-> [ContractApiDialogues EXCEPT ![i] = <<performative>>]]
  /\ UNCHANGED <<heap, dm_os, preferences, status, inq, outq, pc, caller, sent>>

\* a dialogue is extended by a message that is a valid reply to its last one
DialogueReply ==
  /\ \E i \in 1..MaxDialogues :
       /\ ContractApiDialogues[i] # <<>>
       /\ Len(ContractApiDialogues[i]) < MaxMessages
       /\ \E performative \in
              VALID_REPLIES[ContractApiDialogues[i][Len(ContractApiDialogues[i])]] :
            last' = [op |-> "reply",
                     dialogues |-> [ContractApiDialogues EXCEPT
                                      ![i] = Append(@, performative)]]
  /\ UNCHANGED <<heap, dm_os, preferences, status, inq, outq, pc, caller, sent>>

NextContractApi ==
  \/ DialogueCreate
  \/ DialogueReply

\* the contract_api dialogues that the rules of ContractApiDialogue admit
SpecContractApi == Init /\ [][NextContractApi]_vars

\* ------------------------------------------------------------------ claims
\* what the decision maker holds, read through its references
AmountByCurrency == heap[heap[dm_os]._amount_by_currency].d
QuantitiesByGoodId == heap[heap[dm_os]._quantities_by_good_id].d
ExchangeParams == heap[preferences._exchange_params_by_currency].d
UtilityParams == heap[preferences._utility_params_by_good_id].d
BothInitialized == PrefIsInitialized(preferences) /\ OsIsInitialized(heap, dm_os)

\* the latest operation handled an internal TransactionMessage
LastTx == last.op = "tx"
\* the response that operation put on the outbound queue
Response == outq[Len(outq)]
Responded(performative, digest) ==
  /\ last.out # <<>>
  /\ outq # <<>>
  /\ Response.transaction_id = last.msg.transaction_id
  /\ Response.performative = performative
  /\ Response.transaction_digest = digest
\* the calls of that operation to the ledger, by operation
Calls(op) == {i \in DOMAIN last.calls : last.calls[i].op = op}

C2_TransferOnlyIfAcceptable ==
  /\ Cardinality(Calls("transfer")) <= 1
  /\ Calls("transfer") # {} =>
       /\ LastTx
       /\ last.util
       /\ last.afford
       /\ last.calls[1].op = "token_balance"
       /\ last.calls[1].ret # <<>>
       /\ last.msg.amount + last.msg.sender_tx_fee <= last.calls[1].ret[1]
       /\ \A i \in Calls("transfer") : last.calls[i].to = last.msg.counterparty

C2_Witness ==
  /\ LastTx
  /\ Calls("transfer") # {}
  /\ BothInitialized
  /\ last.digest = NoneStr

\* C3: for a transaction of ledger 'off_chain' the ledger is never called, the
\* affordability check is true, the settlement returns the transaction's id,
\* and if the transaction is utility enhancing the answer is ACCEPT with that id.
C3_OffChainAcceptedWithOwnId ==
  (LastTx /\ last.msg.ledger_id = OFF_CHAIN) =>
    /\ last.calls = <<>>
    /\ last.exc # NoExc => last.stage = "utility"
    /\ last.exc = NoExc =>
         /\ last.afford
         /\ last.util => /\ last.digest = last.msg.transaction_id
                         /\ Responded("accept", last.msg.transaction_id)

C3_Witness ==
  /\ LastTx
  /\ last.msg.ledger_id = OFF_CHAIN
  /\ BothInitialized
  /\ last.msg.is_sender_buyer
  /\ last.util
  /\ Responded("accept", last.msg.transaction_id)

\* the change of score a transaction makes to the holdings, in millionths:
\* the currency paid or received and the logarithms of the goods traded
ScoreChange(tx) ==
  LET paid == IF tx.is_sender_buyer THEN 0 - (tx.amount + tx.sender_tx_fee)
              ELSE tx.amount - tx.sender_tx_fee
      traded == tx.quantities_by_good_id
      After(g) == IF tx.is_sender_buyer THEN QuantitiesByGoodId[g] + traded[g]
                  ELSE QuantitiesByGoodId[g] - traded[g]
  IN ExchangeParams[tx.currency_id] * paid * Million
     + SumOver(DOMAIN traded, UtilityParams,
               [g \in DOMAIN traded |->
                  Ln(After(g) + QUANTITY_SHIFT) - Ln(QuantitiesByGoodId[g] + QUANTITY_SHIFT)])

\* C4: the utility check answers true whenever Preferences or OwnershipState
\* is not initialized; with both initialized it answers true iff the score
\* change of the transaction on the current holdings is >= 0.
C4_UtilityCheck ==
  LastTx =>
    IF BothInitialized
    THEN last.stage # "utility" /\ (last.util <=> ScoreChange(last.msg) >= 0)
    ELSE last.stage # "utility" /\ last.util

C4_Witness ==
  /\ LastTx
  /\ PrefIsInitialized(preferences)
  /\ ~OsIsInitialized(heap, dm_os)
  /\ last.msg.is_sender_buyer
  /\ last.msg.amount = MaxAmount
  /\ last.util

\* C5: for a transaction of another ledger than 'off_chain' the affordability
\* check asks the ledger for the balance of the wallet's crypto object of
\* that ledger, and is true iff
\* (amount - counterparty fee) + (sender fee + counterparty fee) <= balance.
C5_AffordableIffPayableWithinBalance ==
  (LastTx /\ last.msg.ledger_id # OFF_CHAIN /\ last.stage \notin {"utility", "affordable"}) =>
    /\ Calls("token_balance") = {1}
    /\ last.calls[1].identifier = last.msg.ledger_id
    /\ last.calls[1].address = CryptoObject(last.msg.ledger_id).address
    /\ last.afford <=>
         ((last.msg.amount - last.msg.counterparty_tx_fee)
            + (last.msg.sender_tx_fee + last.msg.counterparty_tx_fee)
          <= last.calls[1].ret[1])

C5_Witness ==
  /\ LastTx
  /\ last.msg.ledger_id # OFF_CHAIN
  /\ last.afford
  /\ last.msg.counterparty_tx_fee > 0
  /\ last.msg.amount + last.msg.sender_tx_fee = last.calls[1].ret[1]

\* the ledger answered None to a call of the latest operation
LedgerFailed ==
  \E i \in DOMAIN last.calls :
    \/ last.calls[i].op = "token_balance" /\ last.calls[i].ret = <<>>
    \/ last.calls[i].op = "transfer" /\ last.calls[i].ret = NoneStr

\* C6: a ledger call that fails while a transaction is handled ends in a
\* REJECT response for that transaction; no exception leaves execute.
C6_LedgerFailureAnsweredReject ==
  (LastTx /\ LedgerFailed) => (last.exc = NoExc /\ Responded("reject", NoneStr))

LastInitialize ==
  last.op = "state_update" /\ last.msg.performative = "initialize"
LastApply ==
  last.op = "state_update" /\ last.msg.performative = "apply"

\* C7: readiness is READY only with OwnershipState and Preferences both
\* initialized, and a step makes it READY only by handling an INITIALIZE
\* state update.
C7_ReadyOnlyByInitialize ==
  /\ [](status = READY => BothInitialized)
  /\ [][(status # READY /\ status' = READY) => LastInitialize']_vars

C7_Witness ==
  /\ status = READY
  /\ LastInitialize
  /\ sent = 1

\* C8 as stated: once READY, readiness stays READY after every operation.
C8_NeverReverts ==
  [][status = READY => status' = READY]_vars

\* C8: readiness starts NOT_READY, and no message handled by the decision
\* maker takes it back from READY: only GoalPursuitReadiness.update does.
C8_NoMessageReverts ==
  /\ status = NOT_READY
  /\ [][(status = READY /\ status' # READY)
          => last'.op = "GoalPursuitReadiness.update"]_vars

C8_Witness ==
  /\ status = READY
  /\ LastApply
  /\ last.exc = NoExc
  /\ BothInitialized

\* the parameters and fees the preferences hold
PrefValue ==
  [exchange_params_by_currency |-> ExchangeParams,
   utility_params_by_good_id |-> UtilityParams,
   transaction_fees |-> preferences._transaction_fees[1]]

\* C9 as stated: once initialized, the preferences never change.
C9_PreferencesNeverChange ==
  [][PrefIsInitialized(preferences) => PrefValue' = PrefValue]_vars

\* C9: initialized preferences stay initialized and are changed by no message
\* but an INITIALIZE state update, which replaces them by its own parameters
\* and the split of its own fee.
C9_OnlyInitializeChangesPreferences ==
  [][PrefIsInitialized(preferences) =>
       /\ PrefIsInitialized(preferences')
       /\ PrefValue' # PrefValue =>
            /\ LastInitialize'
            /\ ExchangeParams' = last'.msg.exchange_params_by_currency
            /\ UtilityParams' = last'.msg.utility_params_by_good_id
            /\ LET fees == preferences'._transaction_fees[1]
               IN /\ fees.buyer_tx_fee + fees.seller_tx_fee = last'.msg.tx_fee
                  /\ fees.buyer_tx_fee - fees.seller_tx_fee \in {0, 1}]_vars

C9_Witness ==
  /\ LastInitialize
  /\ sent = MaxMsgs
  /\ Len(outq) = 1
  /\ UtilityParams = Const(Goods, 0)
  /\ outq[1].performative = "reject"
  /\ outq[1].transaction_id = "t1"

\* C10: OwnershipState.init, also on an initialized state, raises nothing and
\* leaves the holdings equal to the dicts supplied, in cells of their own; what
\* the caller later writes into its dicts does not change the holdings.
C10_InitTakesCopies ==
  /\ [](last.op = "OwnershipState.init" \/ LastInitialize =>
          /\ last.exc = NoExc
          /\ OsIsInitialized(heap, dm_os)
          /\ AmountByCurrency = heap[caller.amount_by_currency].d
          /\ QuantitiesByGoodId = heap[caller.quantities_by_good_id].d
          /\ LastInitialize =>
               /\ AmountByCurrency = last.msg.amount_by_currency
               /\ QuantitiesByGoodId = last.msg.quantities_by_good_id)
  /\ [][(last'.op = "caller" /\ OsIsInitialized(heap, dm_os)) =>
          /\ AmountByCurrency' = AmountByCurrency
          /\ QuantitiesByGoodId' = QuantitiesByGoodId]_vars

C10_Witness ==
  /\ last.op = "caller"
  /\ OsIsInitialized(heap, dm_os)
  /\ PrefIsInitialized(preferences)
  /\ preferences._transaction_fees[1].buyer_tx_fee = 1
  /\ AmountByCurrency = Const(Currencies, 1)
  /\ QuantitiesByGoodId = Const(Goods, 0)
  /\ heap[caller.amount_by_currency].d = Const(Currencies, MutatedValue)

\* the holdings of the stored ownership state and of the one the caller keeps
StoredHoldings == Holdings(heap, dm_os)
HeldHoldings == Holdings(heap, caller.ownership_state)
\* the dict d with the deltas added to the keys they name
Plus(d, deltas) ==
  [k \in DOMAIN d |-> IF k \in DOMAIN deltas THEN d[k] + deltas[k] ELSE d[k]]

\* C11: an APPLY state update leaves the decision maker with holdings that
\* are the old ones plus the message's deltas, in an object of its own: an
\* ownership state the caller took before still has the holdings it had.
C11_ApplyReplacesState ==
  [][(LastApply' /\ last'.exc = NoExc) =>
       /\ AmountByCurrency' = Plus(AmountByCurrency, last'.msg.amount_by_currency)
       /\ QuantitiesByGoodId' =
            Plus(QuantitiesByGoodId, last'.msg.quantities_by_good_id)
       /\ caller.ownership_state # None =>
            /\ caller'.ownership_state # dm_os'
            /\ HeldHoldings' = HeldHoldings]_vars

C11_Witness ==
  /\ LastApply
  /\ last.exc = NoExc
  /\ caller.ownership_state \notin {None, dm_os}
  /\ HeldHoldings.quantities_by_good_id["g1"] + 1 = QuantitiesByGoodId["g1"]
  /\ HeldHoldings.amount_by_currency["FET"] + 1 = AmountByCurrency["FET"]

\* the latest operation was a call of this method of the ownership state
LastOs(method) == last.op = "OwnershipState." \o method
\* the holdings of S.apply([t1]).apply([t2])
ApplyChained(h, self, t1, t2) ==
  Bind(OsApply(h, self, <<t1>>), LAMBDA a :
  Bind(OsApply(a.h, a.loc, <<t2>>), LAMBDA b : Holdings(b.h, b.loc)))

\* C12: on an initialized ownership state S, apply([T1, T2]) returns the
\* holdings of apply([T1]).apply([T2]), and no apply changes the holdings of S.
C12_ApplyIsSequential ==
  [][(LastOs("apply")' /\ OsIsInitialized(heap, dm_os)) =>
       /\ last'.exc = NoExc
       /\ StoredHoldings' = StoredHoldings
       /\ Len(last'.msg) = 2 =>
            last'.val = ApplyChained(heap, dm_os, last'.msg[1], last'.msg[2])]_vars

C12_Witness ==
  /\ LastOs("apply")
  /\ Len(last.msg) = 2
  /\ last.exc = NoExc
  /\ last.val.amount_by_currency["FET"] # AmountByCurrency["FET"]
  /\ last.val.quantities_by_good_id["g1"] # QuantitiesByGoodId["g1"]

\* C13: on an ownership state that was never initialized, reading either
\* holding, apply and apply_state_update raise an AssertionError; an APPLY
\* state update handled then raises it too, the ownership state stays
\* uninitialized and the readiness NOT_READY.
C13_UninitializedAccessFails ==
  [][(/\ ~OsIsInitialized(heap, dm_os)
      /\ \/ LastOs("amount_by_currency")' \/ LastOs("quantities_by_good_id")'
         \/ LastOs("apply")' \/ LastOs("apply_state_update")'
         \/ LastApply') =>
       /\ last'.exc = "AssertionError"
       /\ ~OsIsInitialized(heap', dm_os')
       /\ status' = NOT_READY
       /\ outq' = outq]_vars

C13_Witness ==
  /\ ~OsIsInitialized(heap, dm_os)
  /\ LastApply
  /\ last.exc = "AssertionError"
  /\ status = NOT_READY

\* C14: on an initialized ownership state, a transaction whose sender is the
\* buyer is consistent iff the amount held of its currency is at least its
\* amount plus the sender's fee, whatever goods it names.
C14_BuyerConsistentIffCovered ==
  (/\ LastOs("check_transaction_is_consistent")
   /\ OsIsInitialized(heap, dm_os)
   /\ last.msg.is_sender_buyer) =>
    /\ last.exc = NoExc
    /\ last.val = (AmountByCurrency[last.msg.currency_id]
                     >= last.msg.amount + last.msg.sender_tx_fee)

C14_Witness ==
  /\ LastOs("check_transaction_is_consistent")
  /\ last.msg.is_sender_buyer
  /\ last.msg.quantities_by_good_id # <<>>
  /\ last.msg.sender_tx_fee > 0
  /\ last.val
  /\ AmountByCurrency[last.msg.currency_id]
       = last.msg.amount + last.msg.sender_tx_fee

\* C15: on an initialized ownership state, a transaction whose sender is the
\* seller is consistent iff every good it names is held in at least the
\* quantity it names and the amount held plus its amount covers the sender's
\* fee.
C15_SellerConsistentIffGoodsAndFee ==
  (/\ LastOs("check_transaction_is_consistent")
   /\ OsIsInitialized(heap, dm_os)
   /\ ~last.msg.is_sender_buyer) =>
    /\ last.exc = NoExc
    /\ last.val =
         (/\ \A g \in DOMAIN last.msg.quantities_by_good_id :
               QuantitiesByGoodId[g] >= last.msg.quantities_by_good_id[g]
          /\ AmountByCurrency[last.msg.currency_id] + last.msg.amount
               >= last.msg.sender_tx_fee)

\* the dict d with the quantities of a bundle taken from the keys it names
Minus(d, bundle) ==
  [k \in DOMAIN d |-> IF k \in DOMAIN bundle THEN d[k] - bundle[k] ELSE d[k]]

\* C16: update takes amount + sender_tx_fee from the transaction's currency
\* for a buyer and adds amount - sender_tx_fee for a seller, adds the goods
\* named for a buyer and takes them for a seller, leaves every other holding
\* as it is, and never refuses: holdings may become negative.
C16_UpdateAppliesWithoutCheck ==
  [][(LastOs("update")' /\ OsIsInitialized(heap, dm_os)) =>
       LET tx == last'.msg
       IN /\ last'.exc = NoExc
          /\ AmountByCurrency' =
               [AmountByCurrency EXCEPT ![tx.currency_id] =
                  IF tx.is_sender_buyer THEN @ - (tx.amount + tx.sender_tx_fee)
                  ELSE @ + (tx.amount - tx.sender_tx_fee)]
          /\ QuantitiesByGoodId' =
               IF tx.is_sender_buyer
               THEN Plus(QuantitiesByGoodId, tx.quantities_by_good_id)
               ELSE Minus(QuantitiesByGoodId, tx.quantities_by_good_id)]_vars

C16_Witness ==
  /\ LastOs("update")
  /\ last.exc = NoExc
  /\ last.msg.is_sender_buyer
  /\ AmountByCurrency["FET"] < 0
  /\ QuantitiesByGoodId["g1"] < 0

\* the latest operation split the fee last.msg into the parts last.val
LastSplit == last.op = "Preferences._split_tx_fees"

\* C17: the two parts a total fee f >= 0 is split into, at Preferences.init
\* or by a call of the split itself, add up to at most f and differ by at
\* most one.
C17_FeeSplit ==
  /\ LastInitialize =>
       LET fees == preferences._transaction_fees[1]
       IN /\ fees.buyer_tx_fee + fees.seller_tx_fee <= last.msg.tx_fee
          /\ fees.buyer_tx_fee - fees.seller_tx_fee \in {0 - 1, 0, 1}
  /\ LastSplit =>
       /\ last.val.buyer_tx_fee[1] + last.val.seller_tx_fee[1] = last.msg[1]
       /\ last.val.buyer_tx_fee[2] + last.val.seller_tx_fee[2] <= last.msg[2]
       /\ last.val.buyer_tx_fee[2] - last.val.seller_tx_fee[2] \in {0 - 1, 0, 1}

\* the message at the head of the inbound queue is one the decision maker
\* drops: not of the internal protocol, or internal and of neither class
HeadIsDropped ==
  /\ Head(inq).kind # "None"
  /\ \/ Head(inq).protocol_id # INTERNAL_PROTOCOL_ID
     \/ Head(inq).kind \notin {"TransactionMessage", "StateUpdateMessage"}

\* C18: a queued message that is not of the internal protocol, or is internal
\* and neither a TransactionMessage nor a StateUpdateMessage, is taken from
\* the queue without an exception, a response or a change of the ownership
\* state, the preferences or the readiness, and the loop of execute goes on.
C18_DroppedWithoutEffect ==
  [][(Len(inq') < Len(inq) /\ HeadIsDropped) =>
       /\ last'.exc = NoExc
       /\ last'.op \in {"not_internal", "unrecognized"}
       /\ outq' = outq
       /\ heap' = heap
       /\ dm_os' = dm_os
       /\ preferences' = preferences
       /\ status' = status
       /\ inq' = Tail(inq)
       /\ pc' = "running"]_vars

C18_Witness ==
  /\ pc = "running"
  /\ last.op \in {"not_internal", "unrecognized"}
  /\ last.msg.kind = "Message"
  /\ inq # <<>>
  /\ Head(inq).kind = "TransactionMessage"
  /\ BothInitialized

\* the message at the head of the inbound queue is an internal transaction
HeadIsTx ==
  /\ Head(inq).kind = "TransactionMessage"
  /\ Head(inq).protocol_id = INTERNAL_PROTOCOL_ID

\* C19: a call of execute returns with the inbound queue empty; it takes the
\* messages in the order they were enqueued, puts exactly one response on the
\* outbound queue for each internal TransactionMessage, after those of the
\* transactions before it, and none for any other message.
C19_DrainsInOrder ==
  [][/\ (pc = "running" /\ pc' = "idle") => inq' = <<>>
     /\ Len(inq') < Len(inq) =>
          /\ last'.msg = Head(inq)
          /\ inq' = Tail(inq)
          /\ IF HeadIsTx
             THEN /\ Len(outq') = Len(outq) + 1
                  /\ SubSeq(outq', 1, Len(outq)) = outq
                  /\ outq'[Len(outq')].transaction_id = Head(inq).transaction_id
             ELSE outq' = outq]_vars

\* C20: the handling of two messages never overlaps, also with several
\* threads in execute at once, and no call of execute fails on a queue that
\* another call emptied between its test and its get_nowait.
C20_OneDrainAtATime ==
  /\ Cardinality({t \in Threads : pc[t].at = "handle"}) <= 1
  /\ last.exc # "Empty"

\* C22: one call of execute handles at most max_reactions messages of the
\* inbound queue and leaves the others for a later call.
C22_AtMostMaxReactions ==
  \A t \in Threads : pc[t].handled <= max_reactions

\* the state a reader finds once the INITIALIZE message m is handled
Initialized(m) ==
  [amount_by_currency |-> [set |-> TRUE, d |-> m.amount_by_currency],
   quantities_by_good_id |-> [set |-> TRUE, d |-> m.quantities_by_good_id],
   exchange_params_by_currency |-> [set |-> TRUE, d |-> m.exchange_params_by_currency],
   utility_params_by_good_id |-> [set |-> TRUE, d |-> m.utility_params_by_good_id],
   transaction_fees |-> <<SplitTxFees(m.tx_fee)>>,
   status |-> READY]

\* C21: a thread that reads the decision maker's state while an INITIALIZE or
\* APPLY is handled finds the whole state from before the update or the whole
\* state after it, never part of one and part of the other.
C21_ReaderSeesWholeState ==
  (last.op = "read" /\ last.at # "idle") =>
     \/ last.val = last.before
     \/ last.message.performative = "initialize"
        /\ last.val = Initialized(last.message)

\* the latest operation was constraint_type.check(value), and it returned
CheckedType(types) ==
  last.op = "ConstraintType.check" /\ last.self.type \in types /\ last.exc = NoExc

\* C23: with operand v and attribute value x, '>' holds iff x > v, '>=' iff
\* x >= v, '<' iff x < v, '<=' iff x <= v, '==' iff x = v and '!=' iff x # v.
C23_ValueOnTheLeft ==
  CheckedType({"==", "!=", "<", "<=", ">", ">="}) =>
    last.val = CASE last.self.type = "==" -> PyEq(last.value, last.self.value)
                 [] last.self.type = "!=" -> ~PyEq(last.value, last.self.value)
                 [] last.self.type = "<" -> last.value.val < last.self.value.val
                 [] last.self.type = "<=" -> last.value.val <= last.self.value.val
                 [] last.self.type = ">" -> last.value.val > last.self.value.val
                 [] last.self.type = ">=" -> last.value.val >= last.self.value.val

\* C24: a WITHIN constraint with operand (low, high) holds iff
\* low <= x <= high, both ends included.
C24_WithinIsInclusive ==
  CheckedType({"within"}) =>
    last.val = (last.self.value.items[1].val <= last.value.val
                /\ last.value.val <= last.self.value.items[2].val)
\* a value at an end of a range of more than one value was accepted
C24_Witness ==
  /\ CheckedType({"within"})
  /\ last.self.value.items[1].val < last.self.value.items[2].val
  /\ last.value.val = last.self.value.items[2].val
  /\ last.val

\* the attribute a checked constraint names, as the description has it
Present == last.self.attribute_name \in DOMAIN last.description.values
Value == last.description.values[last.self.attribute_name]
\* the type the operand of the checked constraint asks for: its own, or that
\* of the first element of a collection
OperandTypes ==
  LET operand == last.self.constraint_type.value
  IN IF operand.items # <<>> THEN {operand.items[1].type}
     ELSE IF operand.type \in {"list", "tuple", "set"} THEN {}
     ELSE {operand.type}

\* C25: Constraint.check is false when the description has no such attribute,
\* false when the value's runtime type does not match the type of the operand
\* (of the first element of a collection operand), and otherwise the result
\* of ConstraintType.check on the value.
C25_AbsentOrMismatchedIsFalse ==
  last.op = "Constraint.check" =>
    /\ last.exc = NoExc
    /\ last.val = IF ~Present THEN FALSE
                  ELSE IF \A t \in OperandTypes : ~IsInstance(Value, t) THEN FALSE
                  ELSE ConstraintTypeCheck(last.self.constraint_type, Value).val

\* what the children of the checked expression give on the same description
ChildChecks ==
  [i \in 1..Len(last.self.constraints) |->
     Check(last.self.constraints[i], last.description)]

\* C26: And(cs).check(d) is the conjunction of c.check(d) over the children,
\* Or(cs).check(d) their disjunction and Not(c).check(d) the negation of
\* c.check(d), whatever the children are.
C26_AndOrNot ==
  last.op = "ConstraintExpr.check" =>
    last.val = CASE last.self.kind = "And" ->
                      \A i \in DOMAIN ChildChecks : ChildChecks[i]
                 [] last.self.kind = "Or" ->
                      \E i \in DOMAIN ChildChecks : ChildChecks[i]
                 [] last.self.kind = "Not" -> ~ChildChecks[1]
\* a Not over an And of two constraints, one of which fails, holds
C26_Witness ==
  /\ last.op = "ConstraintExpr.check"
  /\ last.self.kind = "Not"
  /\ last.self.constraints[1].kind = "And"
  /\ Len(last.self.constraints[1].constraints) = 2
  /\ ChildChecks = <<FALSE>>
  /\ \E i \in 1..2 : Check(last.self.constraints[1].constraints[i], last.description)
  /\ last.val

\* C27: Query.check is the conjunction of its constraints' checks, so every
\* description satisfies a query with no constraint.
C27_QueryIsConjunction ==
  last.op = "Query.check" =>
    /\ last.val = \A i \in 1..Len(last.self.constraints) :
                     Check(last.self.constraints[i], last.description)
    /\ last.self.constraints = <<>> => last.val
\* a query of two constraints failed on a description that satisfies one
C27_Witness ==
  /\ last.op = "Query.check"
  /\ Len(last.self.constraints) = 2
  /\ Check(last.self.constraints[1], last.description)
  /\ ~last.val

RECURSIVE ValidFor(_, _)
\* an expression is valid for a model: a Constraint names an attribute of the
\* model whose declared type is the type of the operand, And and Or have only
\* valid children, Not has a valid child
ValidFor(e, model) ==
  IF e.kind = "Constraint"
  THEN \E i \in DOMAIN model.attributes :
         /\ model.attributes[i].name = e.attribute_name
         /\ model.attributes[i].type =
              (IF e.constraint_type.value.items # <<>>
               THEN e.constraint_type.value.items[1].type
               ELSE e.constraint_type.value.type)
  ELSE \A i \in 1..Len(e.constraints) : ValidFor(e.constraints[i], model)

\* C28: Query construction fails exactly when the constraints are not a list,
\* or a model is given and some constraint is not valid for it; without a
\* model every list is accepted, and so is the empty list.
C28_QueryConstruction ==
  last.op = "Query" =>
    (last.exc # NoExc <=>
       \/ last.constraints.type # "list"
       \/ /\ last.model # NoModel
          /\ \E i \in 1..Len(last.constraints.items) :
               ~ValidFor(last.constraints.items[i], last.model))
\* a list of constraints was refused for a model that lacks an attribute
C28_Witness ==
  /\ last.op = "Query"
  /\ last.constraints.type = "list"
  /\ last.model # NoModel
  /\ last.exc = "ValueError"
  /\ \E i \in 1..Len(last.constraints.items) :
       /\ last.constraints.items[i].kind = "Constraint"
       /\ last.constraints.items[i].attribute_name
            \notin DOMAIN last.model.attributes_by_name

RECURSIVE HasSmallJunction(_)
\* some And or Or of the expression, at any depth, has fewer than 2 children
HasSmallJunction(e) ==
  /\ e.kind # "Constraint"
  /\ \/ e.kind \in {"And", "Or"} /\ Len(e.constraints) < 2
     \/ \E i \in 1..Len(e.constraints) : HasSmallJunction(e.constraints[i])

\* C29: check_validity fails if and only if some And or Or anywhere in the
\* expression, one beneath a Not included, has fewer than 2 children.
C29_ValidityIsRecursive ==
  last.op = "ConstraintExpr.check_validity" =>
    (last.exc # NoExc <=> HasSmallJunction(last.self))

\* C30: DataModel construction fails when two attributes have one name;
\* otherwise the attributes are kept sorted by name, and the index by name
\* has exactly these attributes.
C30_DataModelSortedAndIndexed ==
  last.op = "DataModel" =>
    LET given == last.attributes
        kept == last.val.attributes
        index == last.val.attributes_by_name
    IN IF \E i, j \in DOMAIN given : i # j /\ given[i].name = given[j].name
       THEN last.exc = "ValueError"
       ELSE /\ last.exc = NoExc
            /\ Len(kept) = Len(given)
            /\ {kept[i] : i \in DOMAIN kept} = {given[i] : i \in DOMAIN given}
            /\ \A i, j \in DOMAIN kept : i < j => Before(kept[i].name, kept[j].name)
            /\ DOMAIN index = {kept[i].name : i \in DOMAIN kept}
            /\ \A i \in DOMAIN kept : index[kept[i].name] = kept[i]
\* three attributes given in another order than that of their names
C30_Witness ==
  /\ last.op = "DataModel"
  /\ last.exc = NoExc
  /\ Len(last.attributes) = 3
  /\ Before(last.attributes[3].name, last.attributes[1].name)
  /\ last.val.attributes # last.attributes

\* C34: handling a TransactionMessage, accepted or rejected, leaves the
\* ownership state, the preferences and the readiness as they were: a settled
\* transaction is not applied to the holdings.
C34_TxLeavesStateUnchanged ==
  [][(sent' # sent /\ last'.op = "tx") =>
       /\ heap' = heap
       /\ dm_os' = dm_os
       /\ preferences' = preferences
       /\ status' = status]_vars
\* a purchase of a good was accepted and the holdings are those of INITIALIZE
C34_Witness ==
  /\ LastTx
  /\ BothInitialized
  /\ last.msg.is_sender_buyer
  /\ last.msg.quantities_by_good_id # <<>>
  /\ Responded("accept", last.digest)
  /\ AmountByCurrency["FET"] = MaxAmount + 1
  /\ QuantitiesByGoodId["g1"] = 1

\* C35: the amount and the fee given to transfer add up to amount +
\* sender_tx_fee, whatever counterparty_tx_fee is, which is the payable that
\* was compared with the balance: a transfer is asked for only when that sum
\* is within the balance read for the transaction.
C35_TransferEqualsPayable ==
  LastTx =>
    \A i \in Calls("transfer") :
      /\ last.calls[i].amount + last.calls[i].tx_fee
           = last.msg.amount + last.msg.sender_tx_fee
      /\ last.calls[1].op = "token_balance"
      /\ last.calls[i].amount + last.calls[i].tx_fee <= last.calls[1].ret[1]
      /\ last.afford
\* a transfer of a transaction with a counterparty fee, at the whole balance
C35_Witness ==
  /\ LastTx
  /\ Calls("transfer") # {}
  /\ last.msg.counterparty_tx_fee > 0
  /\ last.msg.sender_tx_fee > 0
  /\ last.calls[2].amount + last.calls[2].tx_fee = last.calls[1].ret[1]

\* C36: the split of a total fee f >= 0 loses nothing and favours the seller:
\* the two parts add up to f, buyer_tx_fee >= seller_tx_fee >= 0, and they are
\* equal iff f is even.
C36_FeeSplitIsExact ==
  LastSplit =>
    /\ last.val.buyer_tx_fee[1] + last.val.seller_tx_fee[1] = last.msg[1]
    /\ last.val.buyer_tx_fee[2] + last.val.seller_tx_fee[2] = last.msg[2]
    /\ last.val.buyer_tx_fee[2] >= last.val.seller_tx_fee[2]
    /\ last.val.seller_tx_fee[2] >= 0
    /\ last.val.buyer_tx_fee[2] = last.val.seller_tx_fee[2] <=> last.msg[2] % 2 = 0

\* the message at the head of the queue is an APPLY whose deltas name a
\* currency or a good that the initialized holdings do not have
HeadIsUnknownApply ==
  /\ Head(inq).kind = "StateUpdateMessage"
  /\ Head(inq).protocol_id = INTERNAL_PROTOCOL_ID
  /\ Head(inq).performative = "apply"
  /\ OsIsInitialized(heap, dm_os)
  /\ \/ ~(DOMAIN Head(inq).amount_by_currency \subseteq DOMAIN AmountByCurrency)
     \/ ~(DOMAIN Head(inq).quantities_by_good_id \subseteq DOMAIN QuantitiesByGoodId)

\* C38: an APPLY naming a currency or a good absent from the holdings fails:
\* the exception ends the call of execute, the stored ownership state keeps
\* the holdings it had, every one of them, and the messages behind stay on
\* the inbound queue.
C38_UnknownKeyFails ==
  [][(Len(inq') < Len(inq) /\ HeadIsUnknownApply) =>
       /\ last'.exc = "KeyError"
       /\ pc' = "idle"
       /\ heap' = heap
       /\ dm_os' = dm_os
       /\ inq' = Tail(inq)
       /\ outq' = outq]_vars
\* such an APPLY failed with a message queued behind it, and the holdings are
\* those of INITIALIZE
C38_Witness ==
  /\ last.op = "state_update"
  /\ last.msg.performative = "apply"
  /\ last.exc = "KeyError"
  /\ "FET" \in DOMAIN last.msg.amount_by_currency
  /\ OsIsInitialized(heap, dm_os)
  /\ AmountByCurrency["FET"] = 2
  /\ inq # <<>>
  /\ pc = "idle"

\* C37: Constraint.check returns true or false, never raising, for every
\* constraint that construction accepts, an IN or NOT_IN over an empty
\* collection included, and every description.
C37_CheckIsTotal ==
  last.op = "Constraint.check" => (last.exc = NoExc /\ last.val \in BOOLEAN)

\* the shape an operand must have for a kind: a scalar for a relation, bool
\* only for equality; a pair of one type for WITHIN; a collection of elements
\* of the type of the first for IN and NOT_IN
ShapeRule(type, value) ==
  CASE type \in {"==", "!="} -> value.type \in {"int", "str", "bool"}
    [] type \in {"<", "<=", ">", ">="} -> value.type \in {"int", "str"}
    [] type = "within" ->
         /\ value.type \in {"list", "tuple"}
         /\ Len(value.items) = 2
         /\ value.items[1].type = value.items[2].type
    [] type \in {"in", "not_in"} ->
         /\ value.type \in {"list", "tuple", "set"}
         /\ \A i \in 1..Len(value.items) : value.items[i].type = value.items[1].type

\* C33: ConstraintType(type, value) fails unless the operand has the shape of
\* the kind, so every ConstraintType that exists satisfies the shape rule of
\* its kind: bool is a scalar for EQUAL and NOT_EQUAL only, and the elements
\* of a collection all have the type of the first.
C33_ConstructionValidatesShape ==
  last.op = "ConstraintType" =>
    (last.exc = NoExc <=> ShapeRule(last.type, last.value))

\* the invariant of a description: every required attribute of the model has
\* a value, every value has an attribute of the model, and the type of every
\* value is the type declared by its attribute and a leaf type
Consistent(values, model) ==
  /\ \A i \in DOMAIN model.attributes :
       model.attributes[i].is_required => model.attributes[i].name \in DOMAIN values
  /\ \A key \in DOMAIN values :
       /\ key \in DOMAIN model.attributes_by_name
       /\ values[key].type = model.attributes_by_name[key].type
       /\ values[key].type \in {"int", "str", "bool"}

\* C31: every Description that construction returns satisfies the invariant
\* (required attributes present, every key an attribute of the model, every
\* value of the declared type of its attribute and of a leaf type), and
\* construction raises the inconsistency error whenever the invariant fails
\* for the model given.
C31_DescriptionIsConsistent ==
  last.op = "Description" =>
    /\ last.exc = NoExc => Consistent(last.val.values, last.val.data_model)
    /\ (last.data_model # NoModel /\ ~Consistent(last.values, last.data_model))
         => last.exc = "AttributeInconsistencyException"
    /\ (last.data_model = NoModel
          /\ \E key \in DOMAIN last.values : last.values[key].type = "list")
         => last.exc = "AttributeInconsistencyException"

\* C32: the wire encoding round-trips: encode never fails on a constraint
\* type that construction accepts, whatever its kind and whether its operand
\* is a value, a list, a tuple or a set, empty collections included, and
\* decoding what encode returns gives a constraint type equal to it.
C32_EncodingRoundTrips ==
  last.op = "ConstraintType.encode" => (last.exc = NoExc /\ last.equal)

\* the field a property of the FipaDialogue reads or sets
FieldOf(op) ==
  IF op \in {"terms", "terms.setter"} THEN "_terms"
  ELSE "_associated_ledger_api_dialogue"

\* C39: the terms and the associated ledger api dialogue of a FipaDialogue
\* are write-once: reading one before it is set raises, the first set
\* succeeds and stores the value, every later set raises and leaves the
\* value, and a read returns the value stored, so what is read is the first
\* value that was set.
C39_WriteOnce ==
  [][(last.op # "new" /\ last' # last) =>
       LET field == FieldOf(last'.op)
           reads == last'.op \in {"terms", "associated_ledger_api_dialogue"}
           unset == last.self[field] = None
       IN /\ (reads /\ unset) => (last'.exc = "AEAEnforceError" /\ last'.self = last.self)
          /\ (reads /\ ~unset) =>
               /\ last'.exc = NoExc
               /\ last'.val = last.self[field]
               /\ last'.self = last.self
          /\ (~reads /\ unset) =>
               /\ last'.exc = NoExc
               /\ last'.self = [last.self EXCEPT ![field] = last'.val]
          /\ (~reads /\ ~unset) =>
               (last'.exc = "AEAEnforceError" /\ last'.self = last.self)]_vars
\* a second set of the terms, to another value, raised and left the first
\* value, with the ledger api dialogue set too
C39_Witness ==
  /\ last.op = "terms.setter"
  /\ last.exc = "AEAEnforceError"
  /\ last.self._terms # None
  /\ last.val # last.self._terms
  /\ last.self._associated_ledger_api_dialogue # None

\* the one terminal performative that answers an initial performative
Matching(performative) ==
  CASE performative \in {"get_deploy_transaction", "get_raw_transaction"} ->
         "raw_transaction"
    [] performative = "get_raw_message" -> "raw_message"
    [] performative = "get_state" -> "state"

\* C40: a contract_api dialogue that starts with an initial performative and
\* in which each message is a valid reply to the one before has at most 2
\* messages: a GET_* performative is answered only by its matching terminal
\* performative or by ERROR, and RAW_TRANSACTION, RAW_MESSAGE, STATE and ERROR
\* admit no reply.
C40_AtMostTwoMessages ==
  \A i \in 1..MaxDialogues :
    LET dialogue == ContractApiDialogues[i]
    IN /\ Len(dialogue) <= 2
       /\ dialogue # <<>> => dialogue[1] \in INITIAL_PERFORMATIVES
       /\ Len(dialogue) = 2 =>
            /\ dialogue[2] \in {Matching(dialogue[1]), "error"}
            /\ dialogue[2] \in TERMINAL_PERFORMATIVES \cup {"error"}
            /\ VALID_REPLIES[dialogue[2]] = {}
\* one dialogue was answered by its terminal performative and another by
\* ERROR
C40_Witness ==
  /\ last.op = "reply"
  /\ last.dialogues[1] = <<"get_state", "state">>
  /\ last.dialogues[2] = <<"get_raw_message", "error">>
====
